---- MODULE Spec2Model ----
(***************************************************************************)
(* A model of the audit core of Audit-AI: the drift detector               *)
(* (audit_core/detection/drift.py), the metrics store                      *)
(* (audit_core/metrics/base.py, standard.py), the dashboard's reset        *)
(* (dashboard/main.py) and the audit middleware                            *)
(* (audit_core/integrations/middleware.py).                                *)
(*                                                                         *)
(* Every operation is executed by a thread in steps; a step is one access  *)
(* to shared state (the drift window, the lock, a file).  A sequential     *)
(* specification runs one thread, a concurrent one several.                *)
(*                                                                         *)
(* Units: hallucination scores are in tenths (9 is 0.9), response times in *)
(* milliseconds.  A window mean is the rational sum/length; relative       *)
(* changes are compared with a threshold by cross-multiplication.          *)
(***************************************************************************)
EXTENDS Integers, Sequences, FiniteSets, TLC

VARIABLES
    \* ---- DriftDetector
    current_window,      \* self.current_window: the samples, oldest first
    window_size,         \* self.window_size
    reference_stats,     \* self.reference_stats: metric name -> baseline mean
    reference_data_path, \* the constructor's argument (kept for the claims)
    \* ---- BaseMetricsTracker and its files
    log_file,            \* metrics.jsonl: whether it exists, and its content
    backups,             \* metrics.jsonl.bak.<timestamp>: timestamp -> content
    metrics,             \* self.metrics: the in-memory cache of the log
    lock,                \* self._lock: 0 when free, else the holding thread
    now,                 \* the clock, in seconds
    \* ---- StandardMetricsTracker, the class
    _instance,           \* cls._instance: an index of objects, 0 for None
    objects,             \* the StandardMetricsTracker objects created
    constructed,         \* the constructor calls that returned, in order
    \* ---- AuditMiddleware
    audit_path_filter,   \* self.audit_path_filter; <<>> when None or ""
    \* ---- threads
    pc,                  \* pc[t]: where thread t stands in its operation
    op,                  \* op[t]: the operation thread t is executing
    loc,                 \* loc[t]: the operation's local variables
    \* ---- history of detect_drift, kept for the claims
    observed,            \* the samples, in the order they were appended
    results,             \* the flags detect_drift returned, in return order
    \* ---- history of the store, kept for the claims
    committed,           \* the lines whose append completed
    reset_calls,         \* how many resets have been called
    log_events           \* the appends completed and the log_inference
                         \* calls returned, in the order they happened

\* What construction sets and no operation changes.
detectorConfig ==
    <<window_size, reference_stats, reference_data_path, audit_path_filter>>
singletonVars == <<_instance, objects, constructed>>
configVars == <<detectorConfig, singletonVars>>
driftVars == <<current_window, configVars>>
threadVars == <<pc, op, loc>>
histVars == <<observed, results>>
storeVars == <<log_file, backups, metrics, lock, now>>
storeHist == <<committed, reset_calls, log_events>>
vars == <<driftVars, storeVars, threadVars, histVars, storeHist>>

\* ------------------------------------------------------------------ bounds

WindowSize == 2
MaxObs == 3
MaxResets == 2
MaxClock == 1
MaxConstructions == 3

Threads == {1, 2}

\* window_size: int = 10
DefaultWindowSize == 10

\* ------------------------------------------------------- DriftDetector data

HallucinationKey == "hallucination_score_mean"
ResponseTimeKey == "response_time_ms_mean"
TokenCountKey == "token_count_mean"

EmptyStats == [k \in {} |-> 0]

\* A sample of the window: a mapping that holds token_count only when the
\* caller gave one.
Sample(h, rt) == [hallucination_score |-> h, response_time_ms |-> rt]
SampleWithTokens(h, rt, tc) ==
    [hallucination_score |-> h, response_time_ms |-> rt, token_count |-> tc]

\* token_count = None
NoTokens == -1

current_metrics(h, rt, tc) ==
    IF tc = NoTokens THEN Sample(h, rt) ELSE SampleWithTokens(h, rt, tc)

\* The reference files a detector may be constructed with: no path ("none"),
\* a path that cannot be read as a record ("unreadable"), and readable
\* records.
RefFiles ==
    [ none        |-> [readable |-> FALSE, record |-> EmptyStats],
      unreadable  |-> [readable |-> FALSE, record |-> EmptyStats],
      empty       |-> [readable |-> TRUE, record |-> EmptyStats],
      both        |-> [readable |-> TRUE,
                       record |-> (HallucinationKey :> 1) @@ (ResponseTimeKey :> 2)],
      zero_hall   |-> [readable |-> TRUE,
                       record |-> (HallucinationKey :> 0) @@ (ResponseTimeKey :> 2)],
      zero_time   |-> [readable |-> TRUE,
                       record |-> (HallucinationKey :> 1) @@ (ResponseTimeKey :> 0)],
      only_hall   |-> [readable |-> TRUE, record |-> (HallucinationKey :> 1)],
      only_time   |-> [readable |-> TRUE, record |-> (ResponseTimeKey :> 2)],
      only_tokens |-> [readable |-> TRUE, record |-> (TokenCountKey :> 5)],
      high        |-> [readable |-> TRUE,
                       record |-> (HallucinationKey :> 9) @@ (ResponseTimeKey :> 3)] ]

RefPaths == DOMAIN RefFiles

_load_reference_data_keep_default(path) ==
    IF RefFiles[path].readable
    THEN RefFiles[path].record
    ELSE (HallucinationKey :> 1) @@ (ResponseTimeKey :> 2)

\* __init__ and _load_reference_data: reference_stats starts empty and is
\* replaced by the file's record; without a path, or when the load fails,
\* it is left empty.
_load_reference_data(path) ==
    IF RefFiles[path].readable THEN RefFiles[path].record ELSE EmptyStats

\* dict.get(key, 0)
RefGet(ref, key) == IF key \in DOMAIN ref THEN ref[key] ELSE 0

RECURSIVE SumOf(_, _)
SumOf(w, field) ==
    IF w = <<>> THEN 0 ELSE w[1][field] + SumOf(Tail(w), field)

Abs(x) == IF x < 0 THEN -x ELSE x

\* x / r > pct / 100, for r # 0
RatioExceeds(x, r, pct) ==
    IF r > 0 THEN x * 100 > pct * r ELSE x * 100 < pct * r

HallucinationThresholdPct == 20
ResponseTimeThresholdPct == 50

\* The absolute change of the mean, in units of 0.1, against the threshold.
_is_metric_drifting_absolute(sum, n, reference_value, pct, is_time) ==
    IF reference_value = 0
    THEN FALSE
    ELSE Abs(sum - reference_value * n) * 10 > pct * n

\* The two-sided test for every metric.
_is_metric_drifting_two_sided(sum, n, reference_value, pct, is_time) ==
    IF reference_value = 0
    THEN FALSE
    ELSE RatioExceeds(Abs(sum - reference_value * n), reference_value * n, pct)

_is_metric_drifting_no_zero_guard(sum, n, reference_value, pct, is_time) ==
    IF reference_value = 0
    THEN (IF is_time THEN sum > 0 ELSE Abs(sum) > 0)
    ELSE IF is_time
         THEN RatioExceeds(sum - reference_value * n, reference_value * n, pct)
         ELSE RatioExceeds(Abs(sum - reference_value * n), reference_value * n, pct)

\* _is_metric_drifting(current_value, reference_value, threshold, is_time),
\* with current_value the mean sum/n (n > 0):
\* (sum/n - ref) / ref  =  (sum - ref*n) / (ref*n).
_is_metric_drifting(sum, n, reference_value, pct, is_time) ==
    IF reference_value = 0
    THEN FALSE
    ELSE IF is_time
         THEN RatioExceeds(sum - reference_value * n, reference_value * n, pct)
         ELSE RatioExceeds(Abs(sum - reference_value * n), reference_value * n, pct)

hallucination_drift(w, ref) ==
    _is_metric_drifting(SumOf(w, "hallucination_score"), Len(w),
                        RefGet(ref, HallucinationKey),
                        HallucinationThresholdPct, FALSE)

response_time_drift(w, ref) ==
    _is_metric_drifting(SumOf(w, "response_time_ms"), Len(w),
                        RefGet(ref, ResponseTimeKey),
                        ResponseTimeThresholdPct, TRUE)

\* "hallucination_drift or response_time_drift" is its first operand when
\* that is true and its second otherwise; an operand is Python's False for a
\* reference of 0 (line 122) and a numpy.bool_, the result of comparing
\* NumPy floats, otherwise.
DriftIsNumpy(w, ref) ==
    IF hallucination_drift(w, ref)
    THEN TRUE
    ELSE RefGet(ref, ResponseTimeKey) # 0

\* Both metrics must drift.
DriftOfAnd(w, ref) == hallucination_drift(w, ref) /\ response_time_drift(w, ref)

\* The token counts of the samples that have one, summed.
RECURSIVE TokenSum(_)
TokenSum(w) ==
    IF w = <<>> THEN 0
    ELSE (IF "token_count" \in DOMAIN w[1] THEN w[1].token_count ELSE 0)
             + TokenSum(Tail(w))

\* The token count is tested as the hallucination score is, a sample
\* without one counting as 0.
DriftOfWithTokens(w, ref) ==
    \/ hallucination_drift(w, ref)
    \/ response_time_drift(w, ref)
    \/ _is_metric_drifting(TokenSum(w), Len(w), RefGet(ref, TokenCountKey),
                           HallucinationThresholdPct, FALSE)

\* The statistics and the two tests on a snapshot of the window.
DriftOf(w, ref) == hallucination_drift(w, ref) \/ response_time_drift(w, ref)

\* current_window.append(current_metrics)
Observe(w, s) == Append(w, s)

EvictNewest(w) == SubSeq(w, 1, Len(w) - 1)

\* current_window.pop(0)
Evict(w) == Tail(w)

WindowOverflows(w) == Len(w) > window_size

NotEnoughDataOffByOne(w) == Len(w) < window_size - 1

NotEnoughData(w) == Len(w) < window_size

NoReference(ref) == DOMAIN ref = {}

\* ------------------------------------------------------------ the log file

\* A file: whether the path exists, which file it names (gen changes when the
\* path is removed, so that a descriptor opened before no longer writes to
\* it), and the content.  json.dumps(record) + '\n' reaches the file in two
\* parts, the second one ending the line.
NoFile == [exists |-> FALSE, gen |-> 0, data |-> <<>>]

\* disk_percent: psutil.disk_usage("/").percent, or None.
NoneValue == [none |-> TRUE, v |-> 0]

Percent(v) == [none |-> FALSE, v |-> v]

\* A record of log_inference: a mapping from keys to values (rid stands for
\* request_id and timestamp; model is a text; fact_consistency is a key of
\* some records only).  numpy holds the keys whose values are NumPy
\* scalars, not Python's.
NoRecord ==
    [rid |-> 0, model |-> <<>>, hallucination_score |-> 0,
     drift_detected |-> FALSE, response_time_ms |-> 0,
     disk_percent |-> NoneValue, numpy |-> {}]

\* The record is written as it is.
serializable_record_unconverted(record) == record

\* Lines 65-70: every NumPy value is replaced by value.item().
serializable_record(record) == [record EXCEPT !.numpy = {}]

\* json.dumps raises TypeError on a NumPy scalar.
CanDump(d) == d.numpy = {}

\* The JSON text of a value: a number, true, false, null or a string.
JsonOf(key, value) ==
    CASE key = "drift_detected" ->
             IF value THEN <<"true">> ELSE <<"false">>
      [] key \in {"model", "request_id"} -> <<"string", value>>
      [] key = "disk_percent" ->
             IF value.none THEN <<"null">> ELSE <<"number", value.v>>
      [] OTHER -> <<"number", value>>

\* json.dumps(d): the text of an object, member by member.
json_dumps(d) == [k \in DOMAIN d \ {"numpy"} |-> JsonOf(k, d[k])]

\* The Python value of a JSON text.
PyOf(key, text) ==
    CASE text = <<"true">> -> TRUE
      [] text = <<"false">> -> FALSE
      [] text = <<"null">> -> NoneValue
      [] key = "disk_percent" -> Percent(text[2])
      [] OTHER -> text[2]

\* json.loads(line): a dict of Python values.
json_loads(text) ==
    [k \in DOMAIN text \cup {"numpy"} |->
        IF k = "numpy" THEN {} ELSE PyOf(k, text[k])]

\* The line _write_to_disk writes for a record, without its '\n'.
Line(record) == json_dumps(serializable_record(record))

Chunk(r, part) == [rec |-> r, part |-> part]

\* The text lines of a content: each ends with a line-ending part, but for
\* an unterminated rest.
RECURSIVE SplitLines(_, _)
SplitLines(d, cur) ==
    IF d = <<>> THEN (IF cur = <<>> THEN <<>> ELSE <<cur>>)
    ELSE IF d[1].part = 2
         THEN <<Append(cur, d[1])>> \o SplitLines(Tail(d), <<>>)
         ELSE SplitLines(Tail(d), Append(cur, d[1]))

TextLines(d) == SplitLines(d, <<>>)

\* json.loads(line) succeeds: the line is the two parts of one record.
Parseable(line) ==
    /\ Len(line) = 2
    /\ line[1].part = 1
    /\ line[2].part = 2
    /\ line[1].rec = line[2].rec

\* _load_metrics: json.loads of the lines, up to the first line that does
\* not parse (the exception ends the loop and is logged); empty when the
\* file does not exist.
RECURSIVE LoadLines(_)
LoadLines(lines) ==
    IF lines = <<>> \/ ~Parseable(lines[1]) THEN <<>>
    ELSE <<json_loads(lines[1][1].rec)>> \o LoadLines(Tail(lines))

_load_metrics(f) == IF f.exists THEN LoadLines(TextLines(f.data)) ELSE <<>>

OpenTruncating(d) == <<>>

\* open(metrics_file, 'a') keeps the content.
OpenForAppend(d) == d

\* A write through a descriptor opened on generation fd: it is appended to
\* the end of the file the descriptor names; when the path has been removed
\* since, the bytes go to the unlinked file and the path's content is
\* unchanged.
Lands(f, fd) == f.exists /\ f.gen = fd

\* The bytes are put at the start of the file.
WriteChunkAtStart(f, fd, c) ==
    IF Lands(f, fd) THEN [f EXCEPT !.data = <<c>> \o @] ELSE f

WriteChunk(f, fd, c) ==
    IF Lands(f, fd) THEN [f EXCEPT !.data = Append(@, c)] ELSE f

LockIgnored(l) == TRUE

\* with self._lock: the lock can be taken when no thread holds it.
LockFree(l) == l = 0

\* ------------------------------------------------------------------ inputs

Scores == {1, 9}
Times == {1, 4}
TokenCounts == {NoTokens, 5}

\* ------------------------------------------------------------- detect_drift

\* cls._instance = None
NoInstance == 0

\* The arguments of StandardMetricsTracker(): storage_path and
\* drift_detector (None gives DriftDetector()).
DefaultArgs == [storage_path |-> "data/metrics", drift_detector |-> "default"]

\* request: its path, its method and whether its body parses as JSON.
NoRequest == [path |-> <<>>, method |-> "GET", json_ok |-> TRUE]

\* A response's headers: a mapping from names to values.
NoHeaders == [name \in {} |-> ""]

\* A JSON document that json() or json.loads has parsed: an object with its
\* members, or a value of another kind (a list, a number, a string).  Texts
\* (a prompt, a completion, a body) are sequences of pieces, "" being <<>>.
EmptyDict == [k \in {} |-> <<>>]

\* A document that is not an object; also a local that is not assigned yet.
NoJson == [is_dict |-> FALSE, members |-> EmptyDict]

JsonObject(d) == [is_dict |-> TRUE, members |-> d]

\* response = None.  A response is its status code, its headers and its body
\* iterator: the chunks that have not been read yet.
NoResponse == [status |-> 0, headers |-> NoHeaders, body_iterator |-> <<>>]

\* score_hallucination's arguments: the two texts, what the embedder's
\* cosine similarity of the pair is (in sixtieths), and whether both are
\* strings (prompt.lower() raises on anything else).
NoInput == [prompt |-> <<>>, completion |-> <<>>, sim |-> 0, is_str |-> TRUE]

\* The record's two scores; fact_consistency is a key only when line 114 ran.
NoScores == [k \in {} |-> 0]

\* The local variables of a thread's operation.
NoLocals ==
    [sample |-> Sample(0, 0),   \* detect_drift: current_metrics
     result |-> FALSE,          \* detect_drift: the flag returned
     result_numpy |-> FALSE,    \* detect_drift: the flag is a numpy.bool_
     rid |-> 0,                 \* log_inference: the serial number of the call
     record |-> NoRecord,       \* log_inference: record
     fd |-> 0,                  \* _write_to_disk: the file f is opened on
     at_call |-> NoFile,        \* the log when the operation was called
     cache_at_call |-> <<>>,    \* self.metrics when the operation was called
     backup_ts |-> -1,          \* reset_metrics: timestamp, -1 before line 88
     io_failed |-> FALSE,       \* the copy or the open of a file raised
     ret |-> FALSE,             \* reset_metrics: the value returned
     request |-> NoRequest,     \* dispatch: request
     response |-> NoResponse,   \* dispatch: response, None before call_next
     response_body |-> <<>>,    \* dispatch: response_body, b"" at first
     calls |-> 0,               \* dispatch: how often call_next was invoked
     log_at_call |-> NoFile,    \* dispatch: the log when it was called
     returned |-> NoResponse,   \* dispatch: the response it returned
     downstream |-> NoResponse, \* dispatch: the response as call_next gave it
     request_read |-> FALSE,    \* dispatch: request.json() was called
     stream_raised |-> FALSE,   \* dispatch: the body iterator raised
     audit_raised |-> FALSE,    \* _log_audit_info: an exception was caught
     request_body |-> NoJson,   \* dispatch: request_body
     model |-> <<>>,            \* log_inference: model
     prompt |-> <<>>,           \* log_inference: prompt
     completion |-> <<>>,       \* log_inference: completion
     args |-> DefaultArgs,      \* StandardMetricsTracker(...): the arguments
     self |-> NoInstance,       \* __init__: self
     lines |-> <<>>,            \* _load_metrics: the lines not read yet
     dataframe |-> <<>>,        \* get_metrics_dataframe: the table returned
     input |-> NoInput,         \* score_hallucination: prompt, completion
     score |-> -1,              \* score_hallucination: the value returned
     hesitation |-> -1,         \* _heuristic_score: hesitation_score
     embed_raised |-> FALSE,    \* _heuristic_score: line 102 caught
     rescore_raised |-> FALSE,  \* the same, in get_fact_consistency
     scores |-> NoScores,       \* log_inference: the record's scores
     stats |-> NoScores]        \* get_resource_usage_stats: the result

\* detect_drift's first access to the window: the sample is built (lines
\* 62-68) and appended (line 70).
DD_Append(t, h, rt, tc) ==
    /\ LET s == current_metrics(h, rt, tc) IN
        /\ current_window' = Observe(current_window, s)
        /\ observed' = Append(observed, s)
        /\ loc' = [loc EXCEPT ![t].sample = s, ![t].rid = Len(observed) + 1]
    /\ pc' = [pc EXCEPT ![t] = "dd_limit"]
    /\ UNCHANGED <<configVars, results>>
    /\ UNCHANGED <<storeVars, storeHist>>

\* detect_drift is entered, while the model's bound on the observations
\* allows one more.
DD_Enter(t, h, rt, tc) ==
    /\ Len(observed) < MaxObs
    /\ DD_Append(t, h, rt, tc)

\* A thread that runs nothing calls o: detect_drift itself, or log_inference,
\* which calls it.
DD_Begin(t, o, h, rt, tc) ==
    /\ pc[t] = "idle"
    /\ op' = [op EXCEPT ![t] = o]
    /\ DD_Enter(t, h, rt, tc)

DD_Call(t, h, rt, tc) == DD_Begin(t, "detect_drift", h, rt, tc)

\* if len(self.current_window) > self.window_size
DD_Limit(t) ==
    /\ pc[t] = "dd_limit"
    /\ pc' = [pc EXCEPT ![t] =
                IF WindowOverflows(current_window) THEN "dd_pop" ELSE "dd_check"]
    /\ UNCHANGED <<driftVars, op, loc, histVars, storeVars, storeHist>>

\* self.current_window.pop(0)
DD_Pop(t) ==
    /\ pc[t] = "dd_pop"
    /\ current_window # <<>>
    /\ current_window' = Evict(current_window)
    /\ pc' = [pc EXCEPT ![t] = "dd_check"]
    /\ UNCHANGED <<configVars, op, loc, histVars>>
    /\ UNCHANGED <<storeVars, storeHist>>

\* detect_drift returns flag: to the caller of detect_drift, or to
\* log_inference, which goes on to assemble the record.
DD_Finish(t, flag, is_numpy) ==
    /\ results' = Append(results, flag)
    /\ IF op[t] = "detect_drift"
       THEN /\ loc' = [loc EXCEPT ![t] = NoLocals]
            /\ pc' = [pc EXCEPT ![t] = "idle"]
       ELSE /\ loc' = [loc EXCEPT ![t].result = flag,
                                  ![t].result_numpy = is_numpy]
            /\ pc' = [pc EXCEPT ![t] = "li_record"]
    /\ UNCHANGED <<driftVars, op, observed, storeVars, storeHist>>

\* if len(self.current_window) < self.window_size or not self.reference_stats
DD_Check(t) ==
    /\ pc[t] = "dd_check"
    /\ IF NotEnoughData(current_window) \/ NoReference(reference_stats)
       THEN DD_Finish(t, FALSE, FALSE)
       ELSE /\ pc' = [pc EXCEPT ![t] = "dd_stats"]
            /\ UNCHANGED <<driftVars, op, loc, histVars, storeVars, storeHist>>

\* window_df = pd.DataFrame(self.current_window), the means and the tests
DD_Stats(t) ==
    /\ pc[t] = "dd_stats"
    /\ current_window # <<>>
    /\ DD_Finish(t, DriftOf(current_window, reference_stats),
                    DriftIsNumpy(current_window, reference_stats))

\* ------------------------------------------------------------ log_inference

\* An event of the history: the call that assembled the record has
\* completed its append, or has returned the record.
Event(record, kind) == [rid |-> record.rid, kind |-> kind, record |-> record]

\* StandardMetricsTracker.log_inference: the score (h, from
\* score_hallucination) and then detect_drift on the store's detector.
LI_Call(t, h, rt, tc) == DD_Begin(t, "log_inference", h, rt, tc)

\* if hallucination_score < 0.8, in tenths
FactConsistencyBelow == 8

\* What psutil.disk_usage("/").percent gives when it does not raise.
DiskUsage == Percent(50)

\* The record is assembled from the score, the flag and the arguments
\* (lines 99-109); fact_consistency is added for a score below 0.8, as 1.0
\* minus h2, the score get_fact_consistency computes (lines 112-114, and
\* hallucination.py 126-127); disk is the disk usage, or None when
\* disk_usage raises (lines 125-128); more holds the keys a specification
\* follows beyond these.
LI_AssembleWith(t, h2, disk, more) ==
    /\ pc[t] = "li_record"
    /\ LET h == loc[t].sample.hallucination_score
           record == [rid |-> loc[t].rid,
                      model |-> loc[t].model,
                      hallucination_score |-> h,
                      drift_detected |-> loc[t].result,
                      response_time_ms |-> loc[t].sample.response_time_ms,
                      disk_percent |-> disk,
                      numpy |-> IF loc[t].result_numpy
                                THEN {"drift_detected"} ELSE {}]
       IN  loc' = [loc EXCEPT ![t].record =
                      IF h < FactConsistencyBelow
                      THEN (record @@ more)
                               @@ ("fact_consistency" :> 10 - h2)
                      ELSE record @@ more]
    /\ pc' = [pc EXCEPT ![t] = "wd_lock"]
    /\ UNCHANGED <<driftVars, storeVars, op, histVars, storeHist>>

\* The record with rid, the serial number of the call, standing for its
\* request_id and timestamp.
LI_Assemble(t, h2, disk) == LI_AssembleWith(t, h2, disk, NoScores)

\* The record of a call whose second scoring gives the first one's score
\* and whose disk usage is read.
LI_Record(t) ==
    LI_Assemble(t, loc[t].sample.hallucination_score, DiskUsage)

\* The record of a call, whatever the second scoring gives and whether or
\* not the disk usage can be read.
LI_RecordAny(t) ==
    \E h2 \in Scores, disk \in {DiskUsage, NoneValue} :
        LI_Assemble(t, h2, disk)

\* The milliseconds of a clock second that the model tells apart.
MsPerSecond == 2

\* int(time.time() * 1000), read during the clock second s.
MsOfSecond(s) == {s * MsPerSecond + m : m \in 0..(MsPerSecond - 1)}

\* f"req_{int(time.time() * 1000)}"
RequestId(ms) == <<"req_", ms>>

\* The record of a call with its request_id, made of the clock's
\* milliseconds when line 100 runs.
LI_RecordTimed(t) ==
    \E ms \in MsOfSecond(now) :
        LI_AssembleWith(t, loc[t].sample.hallucination_score, DiskUsage,
                        "request_id" :> RequestId(ms))

\* _write_to_disk: with self._lock
WD_Lock(t) ==
    /\ pc[t] = "wd_lock"
    /\ LockFree(lock)
    /\ lock' = t
    /\ loc' = [loc EXCEPT ![t].at_call = log_file]
    /\ pc' = [pc EXCEPT ![t] = "wd_open"]
    /\ UNCHANGED <<driftVars, log_file, backups, metrics, now, op,
                   histVars, storeHist>>

\* The exception leaves _write_to_disk and log_inference.
WD_Except_propagates(t, io) ==
    /\ lock' = 0
    /\ loc' = [loc EXCEPT ![t].io_failed = io]
    /\ pc' = [pc EXCEPT ![t] = "li_raised"]
    /\ UNCHANGED log_file

\* An exception inside "with self._lock, open(...)": the lock is released
\* and "except Exception" logs it (lines 74-75); _write_to_disk returns.
\* io tells an I/O error from json.dumps' TypeError.
WD_Except(t, io) ==
    /\ lock' = 0
    /\ loc' = [loc EXCEPT ![t].io_failed = io]
    /\ pc' = [pc EXCEPT ![t] = "li_return"]
    /\ UNCHANGED log_file

\* open(metrics_file, 'a'): creates the file when the path does not exist.
\* When it raises, the lock is released and the exception is logged.
WD_Open(t) ==
    /\ pc[t] = "wd_open"
    /\ \E ok \in BOOLEAN :
        IF ok
        THEN /\ log_file' = [log_file EXCEPT !.exists = TRUE,
                                             !.data = OpenForAppend(@)]
             /\ loc' = [loc EXCEPT ![t].fd = log_file.gen]
             /\ pc' = [pc EXCEPT ![t] = "wd_write"]
             /\ UNCHANGED lock
        ELSE WD_Except(t, TRUE)
    /\ UNCHANGED <<driftVars, backups, metrics, now, op, histVars, storeHist>>

\* f.write(json.dumps(serializable_record) + '\n'): the first part of the
\* line reaches the file, or json.dumps or the write raises with nothing
\* written (the file is closed, the lock released, the exception logged).
WD_Write(t) ==
    /\ pc[t] = "wd_write"
    /\ \E ok \in BOOLEAN :
        IF ok /\ CanDump(serializable_record(loc[t].record))
        THEN /\ log_file' = WriteChunk(log_file, loc[t].fd,
                                       Chunk(Line(loc[t].record), 1))
             /\ pc' = [pc EXCEPT ![t] = "wd_close"]
             /\ UNCHANGED <<lock, loc>>
        ELSE WD_Except(t, ~ok)
    /\ UNCHANGED <<driftVars, backups, metrics, now, op, histVars, storeHist>>

\* The rest of the line reaches the file, the file is closed and the lock
\* released.
WD_Close(t) ==
    /\ pc[t] = "wd_close"
    /\ log_file' = WriteChunk(log_file, loc[t].fd,
                              Chunk(Line(loc[t].record), 2))
    /\ committed' = IF Lands(log_file, loc[t].fd)
                    THEN committed \cup {Line(loc[t].record)} ELSE committed
    /\ log_events' = IF Lands(log_file, loc[t].fd)
                     THEN Append(log_events, Event(loc[t].record, "appended"))
                     ELSE log_events
    /\ lock' = 0
    /\ pc' = [pc EXCEPT ![t] = "li_return"]
    /\ UNCHANGED <<driftVars, backups, metrics, now, op, loc, histVars,
                   reset_calls>>

\* return record: to the caller of log_inference, or to _log_audit_info,
\* which returns to dispatch (an exception logged on the way changes nothing).
LI_Return(t) ==
    /\ pc[t] = "li_return"
    /\ IF op[t] = "dispatch"
       THEN /\ pc' = [pc EXCEPT ![t] = "dp_return"]
            /\ UNCHANGED loc
       ELSE /\ pc' = [pc EXCEPT ![t] = "idle"]
            /\ loc' = [loc EXCEPT ![t] = NoLocals]
    /\ log_events' = Append(log_events, Event(loc[t].record, "returned"))
    /\ UNCHANGED <<driftVars, storeVars, op, histVars, committed, reset_calls>>

\* ------------------------------------------------------------ reset_metrics

\* A reset is called: reset_metrics itself, or the dashboard's
\* reset_metrics_data, which calls it first.
RM_Begin(t, o) ==
    /\ pc[t] = "idle"
    /\ reset_calls < MaxResets
    /\ reset_calls' = reset_calls + 1
    /\ op' = [op EXCEPT ![t] = o]
    /\ loc' = [loc EXCEPT ![t] = [NoLocals EXCEPT !.at_call = log_file,
                                                   !.cache_at_call = metrics]]
    /\ pc' = [pc EXCEPT ![t] = "rm_exists"]
    /\ UNCHANGED <<driftVars, storeVars, histVars, committed, log_events>>

RM_Call(t) == RM_Begin(t, "reset_metrics")

\* The copy is attempted whether or not the log exists, and raises when it
\* does not.
RM_Exists_unguarded(t) ==
    /\ pc[t] = "rm_exists"
    /\ loc' = [loc EXCEPT ![t].backup_ts = now]
    /\ pc' = [pc EXCEPT ![t] = IF log_file.exists THEN "rm_copy" ELSE "rm_failed"]
    /\ UNCHANGED <<driftVars, storeVars, op, histVars, storeHist>>

\* if os.path.exists(metrics_file): timestamp = datetime.now()...
RM_Exists(t) ==
    /\ pc[t] = "rm_exists"
    /\ IF log_file.exists
       THEN /\ loc' = [loc EXCEPT ![t].backup_ts = now]
            /\ pc' = [pc EXCEPT ![t] = "rm_copy"]
       ELSE /\ pc' = [pc EXCEPT ![t] = "rm_truncate"]
            /\ UNCHANGED loc
    /\ UNCHANGED <<driftVars, storeVars, op, histVars, storeHist>>

RM_Copy_no_backup(t) ==
    /\ pc[t] = "rm_copy"
    /\ \E ok \in BOOLEAN :
        IF ok /\ log_file.exists
        THEN /\ pc' = [pc EXCEPT ![t] = "rm_truncate"]
             /\ UNCHANGED loc
        ELSE /\ loc' = [loc EXCEPT ![t].io_failed = TRUE]
             /\ pc' = [pc EXCEPT ![t] = "rm_failed"]
    /\ UNCHANGED <<driftVars, log_file, backups, metrics, lock, now, op,
                   histVars, storeHist>>

\* shutil.copy2(metrics_file, backup_file): the backup of that timestamp is
\* created or overwritten with the log's content.  It raises when the copy
\* fails or the log is no longer there.
RM_Copy(t) ==
    /\ pc[t] = "rm_copy"
    /\ \E ok \in BOOLEAN :
        IF ok /\ log_file.exists
        THEN /\ backups' = (loc[t].backup_ts :> log_file.data) @@ backups
             /\ pc' = [pc EXCEPT ![t] = "rm_truncate"]
             /\ UNCHANGED loc
        ELSE /\ loc' = [loc EXCEPT ![t].io_failed = TRUE]
             /\ pc' = [pc EXCEPT ![t] = "rm_failed"]
             /\ UNCHANGED backups
    /\ UNCHANGED <<driftVars, log_file, metrics, lock, now, op, histVars,
                   storeHist>>

\* The open truncates the log and the failure comes after it.
RM_Truncate_then_fail(t) ==
    /\ pc[t] = "rm_truncate"
    /\ \E ok \in BOOLEAN :
        /\ log_file' = [log_file EXCEPT !.exists = TRUE, !.data = <<>>]
        /\ IF ok
           THEN /\ pc' = [pc EXCEPT ![t] = "rm_clear"]
                /\ UNCHANGED loc
           ELSE /\ loc' = [loc EXCEPT ![t].io_failed = TRUE]
                /\ pc' = [pc EXCEPT ![t] = "rm_failed"]
    /\ UNCHANGED <<driftVars, backups, metrics, lock, now, op, histVars,
                   storeHist>>

\* with open(metrics_file, 'w') as f: f.write(""): the log is truncated, or
\* created empty.
RM_Truncate(t) ==
    /\ pc[t] = "rm_truncate"
    /\ \E ok \in BOOLEAN :
        IF ok
        THEN /\ log_file' = [log_file EXCEPT !.exists = TRUE, !.data = <<>>]
             /\ pc' = [pc EXCEPT ![t] = "rm_clear"]
             /\ UNCHANGED loc
        ELSE /\ loc' = [loc EXCEPT ![t].io_failed = TRUE]
             /\ pc' = [pc EXCEPT ![t] = "rm_failed"]
             /\ UNCHANGED log_file
    /\ UNCHANGED <<driftVars, backups, metrics, lock, now, op, histVars,
                   storeHist>>

\* The reset also starts the drift window anew.
RM_Clear_with_window(t) ==
    /\ pc[t] = "rm_clear"
    /\ metrics' = <<>>
    /\ current_window' = <<>>
    /\ loc' = [loc EXCEPT ![t].ret = TRUE]
    /\ pc' = [pc EXCEPT ![t] = "rm_returned"]
    /\ UNCHANGED <<configVars, log_file, backups, lock, now, op, histVars,
                   storeHist>>

\* self.metrics = []; return True
RM_Clear(t) ==
    /\ pc[t] = "rm_clear"
    /\ metrics' = <<>>
    /\ loc' = [loc EXCEPT ![t].ret = TRUE]
    /\ pc' = [pc EXCEPT ![t] = "rm_returned"]
    /\ UNCHANGED <<driftVars, log_file, backups, lock, now, op, histVars,
                   storeHist>>

\* The exception leaves reset_metrics.
RM_Failed_reraise(t) ==
    /\ pc[t] = "rm_failed"
    /\ pc' = [pc EXCEPT ![t] = "rm_raised"]
    /\ UNCHANGED <<driftVars, storeVars, op, loc, histVars, storeHist>>

\* except Exception: return False
RM_Failed(t) ==
    /\ pc[t] = "rm_failed"
    /\ loc' = [loc EXCEPT ![t].ret = FALSE]
    /\ pc' = [pc EXCEPT ![t] = "rm_returned"]
    /\ UNCHANGED <<driftVars, storeVars, op, histVars, storeHist>>

\* The caller has the value reset_metrics returned: the caller of
\* reset_metrics is done; the dashboard returns when it is true (lines
\* 48-50) and goes on to its fallback when it is false.
RM_Returned(t) ==
    /\ pc[t] = "rm_returned"
    /\ pc' = [pc EXCEPT ![t] =
                IF op[t] = "reset_metrics_data" /\ ~loc[t].ret
                THEN "rd_exists" ELSE "idle"]
    /\ loc' = [loc EXCEPT ![t] = NoLocals]
    /\ UNCHANGED <<driftVars, storeVars, op, histVars, storeHist>>

\* ------------------------------------- AuditAIDashboard.reset_metrics_data

RD_Call(t) == RM_Begin(t, "reset_metrics_data")

\* if os.path.exists(metrics_file) ... else: return False, "No metrics data"
RD_Exists(t) ==
    /\ pc[t] = "rd_exists"
    /\ pc' = [pc EXCEPT ![t] = IF log_file.exists THEN "rd_remove" ELSE "idle"]
    /\ UNCHANGED <<driftVars, storeVars, op, loc, histVars, storeHist>>

\* os.remove(metrics_file); when it raises, the exception is logged and
\* reset_metrics_data returns False.
RD_Remove(t) ==
    /\ pc[t] = "rd_remove"
    /\ \E ok \in BOOLEAN :
        IF ok /\ log_file.exists
        THEN /\ log_file' = [exists |-> FALSE, gen |-> log_file.gen + 1,
                             data |-> <<>>]
             /\ pc' = [pc EXCEPT ![t] = "rd_reload"]
        ELSE /\ pc' = [pc EXCEPT ![t] = "idle"]
             /\ UNCHANGED log_file
    /\ UNCHANGED <<driftVars, backups, metrics, lock, now, op, loc, histVars,
                   storeHist>>

\* self.metrics._load_metrics(); return True
RD_Reload(t) ==
    /\ pc[t] = "rd_reload"
    /\ metrics' = _load_metrics(log_file)
    /\ pc' = [pc EXCEPT ![t] = "idle"]
    /\ UNCHANGED <<driftVars, log_file, backups, lock, now, op, loc, histVars,
                   storeHist>>

\* ---------------------------------------------------- get_metrics_dataframe

\* get_metrics_dataframe calls _load_metrics, whose first statement binds
\* self.metrics to a new, empty list.
GM_Call(t) ==
    /\ pc[t] = "idle"
    /\ op' = [op EXCEPT ![t] = "get_metrics_dataframe"]
    /\ metrics' = <<>>
    /\ loc' = [loc EXCEPT ![t] = [NoLocals EXCEPT !.at_call = log_file]]
    /\ pc' = [pc EXCEPT ![t] = "gm_open"]
    /\ UNCHANGED <<driftVars, log_file, backups, lock, now, histVars,
                   storeHist>>

\* if os.path.exists(metrics_file): with open(metrics_file, 'r') as f.  The
\* reader takes the text of the file as it is now (a log shorter than the
\* reader's buffer is read whole by the first read).  When the file does
\* not exist, or open raises, nothing is loaded.
GM_Open(t) ==
    /\ pc[t] = "gm_open"
    /\ \E ok \in BOOLEAN :
          IF ok /\ log_file.exists
          THEN /\ loc' = [loc EXCEPT ![t].lines = TextLines(log_file.data)]
               /\ pc' = [pc EXCEPT ![t] = "gm_read"]
          ELSE /\ pc' = [pc EXCEPT ![t] = "gm_return"]
               /\ loc' = [loc EXCEPT ![t].io_failed = log_file.exists]
    /\ UNCHANGED <<driftVars, storeVars, op, histVars, storeHist>>

\* for line in f: self.metrics.append(json.loads(line)).  The record of the
\* next line is appended to the list self.metrics is bound to at that
\* moment; a line that does not parse ends the loop (lines 57-58), as does
\* the end of the file.
GM_Read(t) ==
    /\ pc[t] = "gm_read"
    /\ IF loc[t].lines # <<>> /\ Parseable(Head(loc[t].lines))
       THEN /\ metrics' = Append(metrics, json_loads(Head(loc[t].lines)[1].rec))
            /\ loc' = [loc EXCEPT ![t].lines = Tail(@)]
            /\ UNCHANGED pc
       ELSE /\ pc' = [pc EXCEPT ![t] = "gm_return"]
            /\ UNCHANGED <<metrics, loc>>
    /\ UNCHANGED <<driftVars, log_file, backups, lock, now, op, histVars,
                   storeHist>>

\* return pd.DataFrame(self.metrics): the table's rows are the records of
\* the list self.metrics is bound to now.
GM_Return(t) ==
    /\ pc[t] = "gm_return"
    /\ loc' = [loc EXCEPT ![t].dataframe = metrics, ![t].lines = <<>>]
    /\ pc' = [pc EXCEPT ![t] = "gm_returned"]
    /\ UNCHANGED <<driftVars, storeVars, op, histVars, storeHist>>

\* The caller has the table.
GM_Done(t) ==
    /\ pc[t] = "gm_returned"
    /\ op[t] = "get_metrics_dataframe"
    /\ loc' = [loc EXCEPT ![t] = NoLocals]
    /\ pc' = [pc EXCEPT ![t] = "idle"]
    /\ UNCHANGED <<driftVars, storeVars, op, histVars, storeHist>>

\* The steps of get_metrics_dataframe, for thread t.
GetMetricsStep(t) ==
    \/ GM_Open(t)
    \/ GM_Read(t)
    \/ GM_Return(t)
    \/ GM_Done(t)

\* --------------------------------------------------- get_resource_usage_stats

\* log_inference(prompt, completion, model, ...) is called with a model name.
LI_CallWith(t, model) ==
    /\ pc[t] = "idle"
    /\ op' = [op EXCEPT ![t] = "log_inference"]
    /\ loc' = [loc EXCEPT ![t] = [NoLocals EXCEPT !.model = model]]
    /\ pc' = [pc EXCEPT ![t] = "li_score"]
    /\ UNCHANGED <<driftVars, storeVars, histVars, storeHist>>

\* Lines 84-91 of that call: the score h, then detect_drift.
LI_Score(t, h, rt) ==
    /\ pc[t] = "li_score"
    /\ DD_Enter(t, h, rt, NoTokens)
    /\ UNCHANGED op

\* The model names of the records, and a name no record has.
ModelNames == {<<"m1">>, <<"m2">>}

\* model: Optional[str] = None.  None and "" are both false in 'if model'.
NoModel == <<>>

ModelFilters == ModelNames \cup {NoModel, <<"m3">>}

\* A float: a fraction, or NaN.
Number(n) == [num |-> n, den |-> 1]

NaN == [num |-> 0, den |-> 0]

\* df[df['model'] == model]
RECURSIVE RowsOfModel(_, _)
RowsOfModel(df, model) ==
    IF df = <<>> THEN <<>>
    ELSE (IF df[1].model = model THEN <<df[1]>> ELSE <<>>)
             \o RowsOfModel(Tail(df), model)

\* df[key], with the columns cpu_time_sec and memory_delta_bytes filled
\* with 0.0 where the records do not have them (lines 145-148).
RECURSIVE Column(_, _)
Column(df, key) ==
    IF df = <<>> THEN <<>>
    ELSE <<IF key \in DOMAIN df[1] THEN df[1][key] ELSE 0>>
             \o Column(Tail(df), key)

RECURSIVE SumSeq(_)
SumSeq(q) == IF q = <<>> THEN 0 ELSE q[1] + SumSeq(Tail(q))

\* Series.mean(): the sum over the length, NaN for an empty series.
mean(series) ==
    IF series = <<>> THEN NaN
    ELSE [num |-> SumSeq(series), den |-> Len(series)]

\* Lines 150-157.
ZeroStats ==
    [count |-> 0,
     avg_cpu_time_sec |-> Number(0),
     avg_memory_delta_mb |-> Number(0),
     avg_response_time_ms |-> Number(0),
     models |-> [m \in {} |-> 0]]

\* Lines 159-186, for a table with rows.
StatsOfRows(df, model) ==
    LET df_filtered == IF model # NoModel THEN RowsOfModel(df, model) ELSE df
        models == {df[i].model : i \in 1..Len(df)}
    IN  [count |-> Len(df_filtered),
         avg_cpu_time_sec |-> mean(Column(df_filtered, "cpu_time_sec")),
         avg_memory_delta_mb |->
             mean(Column(df_filtered, "memory_delta_bytes")),
         avg_response_time_ms |->
             mean(Column(df_filtered, "response_time_ms")),
         models |->
             [model_name \in models |->
                 LET model_df == RowsOfModel(df, model_name) IN
                     [count |-> Len(model_df),
                      avg_cpu_time_sec |->
                          mean(Column(model_df, "cpu_time_sec")),
                      avg_memory_delta_mb |->
                          mean(Column(model_df, "memory_delta_bytes")),
                      avg_response_time_ms |->
                          mean(Column(model_df, "response_time_ms")),
                      avg_hallucination_score |->
                          mean(Column(model_df, "hallucination_score"))]]]

\* The statistics computed without the case of the empty table.
resource_usage_stats_no_empty_case(df, model) == StatsOfRows(df, model)

\* Lines 145-186, from the table get_metrics_dataframe returned.
resource_usage_stats(df, model) ==
    IF Len(df) = 0 THEN ZeroStats ELSE StatsOfRows(df, model)

\* get_resource_usage_stats(model): df = self.get_metrics_dataframe()
RU_Call(t, model) ==
    /\ pc[t] = "idle"
    /\ op' = [op EXCEPT ![t] = "get_resource_usage_stats"]
    /\ metrics' = <<>>
    /\ loc' = [loc EXCEPT ![t] = [NoLocals EXCEPT !.at_call = log_file,
                                                   !.model = model]]
    /\ pc' = [pc EXCEPT ![t] = "gm_open"]
    /\ UNCHANGED <<driftVars, log_file, backups, lock, now, histVars,
                   storeHist>>

\* The table is back; the statistics are computed and returned.
RU_Stats(t) ==
    /\ pc[t] = "gm_returned"
    /\ op[t] = "get_resource_usage_stats"
    /\ loc' = [loc EXCEPT ![t].stats =
                  resource_usage_stats(loc[t].dataframe, loc[t].model)]
    /\ pc' = [pc EXCEPT ![t] = "ru_returned"]
    /\ UNCHANGED <<driftVars, storeVars, op, histVars, storeHist>>

\* The caller has the statistics.
RU_Done(t) ==
    /\ pc[t] = "ru_returned"
    /\ loc' = [loc EXCEPT ![t] = NoLocals]
    /\ pc' = [pc EXCEPT ![t] = "idle"]
    /\ UNCHANGED <<driftVars, storeVars, op, histVars, storeHist>>

\* A second passes.
Tick ==
    /\ now < MaxClock
    /\ now' = now + 1
    /\ UNCHANGED <<driftVars, log_file, backups, metrics, lock, threadVars,
                   histVars, storeHist>>

\* ------------------------------------------------- AuditMiddleware.dispatch

\* A path and a filter are strings, modelled as sequences of pieces;
\* "/v1/infer" is <<"/v1", "/infer">>.  No filter (None, or "") is <<>>.
NoFilter == <<>>

Filters == {NoFilter, <<"/v1", "/infer">>}

Paths == {<<"/health">>, <<"/v1", "/infer">>, <<"/api", "/v1", "/infer">>}

\* a in b, for strings
IsSubstring(a, b) ==
    \E i \in 0..(Len(b) - Len(a)) : SubSeq(b, i + 1, i + Len(a)) = a

_should_audit_path_always(filter, path) == TRUE

_should_audit_path(filter, path) ==
    IF filter = NoFilter THEN TRUE ELSE IsSubstring(filter, path)

Requests == [path : Paths, method : {"GET", "POST"}, json_ok : BOOLEAN]

\* What request.json() gives for a body that is JSON: an object without the
\* members the extractors look for, an object with them, or a list.
RequestBodies ==
    {JsonObject(EmptyDict),
     JsonObject(("model" :> <<"m1">>) @@ ("prompt" :> <<"hi">>)),
     NoJson}

\* What the downstream handler answers: a status code and a body, streamed
\* in chunks (no chunk, one chunk of JSON, two chunks of text, one empty
\* chunk).  A chunk is a sequence of bytes.
Statuses == {200, 302, 404, 500}

BodyStreams ==
    {<<>>, <<<<"{}">>>>, <<<<"a">>, <<"b">>>>, <<<<>>>>,
     <<<<"{\"response\": ">>, <<"\"ok\"}">>>>}

\* The bodies that are JSON texts, and the documents json.loads gives.
JsonTexts ==
    (<<"{}">> :> JsonObject(EmptyDict))
        @@ (<<"{\"response\": ", "\"ok\"}">> :>
                JsonObject("response" :> <<"ok">>))

\* dict.get(key, default)
DictGet(d, key, default) == IF key \in DOMAIN d THEN d[key] ELSE default

DefaultModel == <<"default_model">>

\* lambda x: x.get("model", "default_model")
extract_model_name(x) == DictGet(x.members, "model", DefaultModel)

\* lambda x: x.get("prompt", "")
extract_prompt(x) == DictGet(x.members, "prompt", <<>>)

\* lambda req, resp: resp.get("response", resp.get("completion", ""))
extract_completion(req, resp) ==
    DictGet(resp.members, "response", DictGet(resp.members, "completion", <<>>))

\* Lines 99-105: response_json = json.loads(response_body), or, when that
\* raises, {"response": response_body.decode('utf-8', errors='replace')}.
response_json(response_body) ==
    IF response_body \in DOMAIN JsonTexts
    THEN JsonTexts[response_body]
    ELSE JsonObject("response" :> response_body)

HeaderSets ==
    {("content-type" :> "application/json"),
     ("content-type" :> "text/plain") @@ ("x-request" :> "1")}

Responses ==
    [status : Statuses, headers : HeaderSets, body_iterator : BodyStreams]

\* Response(content=response_body, status_code=response.status_code,
\* headers=dict(response.headers), media_type=response.media_type)
Rebuild(response, response_body) ==
    [status |-> response.status,
     headers |-> response.headers,
     body_iterator |-> <<response_body>>]

IsNotError(status) == status < 400

\* if 200 <= response.status_code < 300
IsSuccess(status) == 200 <= status /\ status < 300

SkipAuditNever(response_body, response_status) == FALSE

\* if not response_body or response_status >= 400: return
SkipAudit(response_body, response_status) ==
    response_body = <<>> \/ response_status >= 400

\* dispatch is called with a request.  It starts with response_body = b""
\* and response = None, and tests the path.
DP_Call(t, req) ==
    /\ pc[t] = "idle"
    /\ Len(observed) < MaxObs
    /\ op' = [op EXCEPT ![t] = "dispatch"]
    /\ loc' = [loc EXCEPT ![t] =
                 [NoLocals EXCEPT !.request = req, !.log_at_call = log_file]]
    /\ pc' = [pc EXCEPT ![t] =
                IF _should_audit_path(audit_path_filter, req.path)
                THEN "dp_request" ELSE "dp_pass"]
    /\ UNCHANGED <<driftVars, storeVars, histVars, storeHist>>

\* return await call_next(request): the handler answers, or raises and
\* dispatch raises with it.
CallNextAndReturn(t) ==
    \/ \E resp \in Responses :
        /\ loc' = [loc EXCEPT ![t].calls = @ + 1, ![t].returned = resp,
                               ![t].downstream = resp]
        /\ pc' = [pc EXCEPT ![t] = "dp_returned"]
    \/ /\ loc' = [loc EXCEPT ![t].calls = @ + 1]
       /\ pc' = [pc EXCEPT ![t] = "dp_raised"]

\* The path is not audited (line 146).
DP_Pass(t) ==
    /\ pc[t] = "dp_pass"
    /\ CallNextAndReturn(t)
    /\ UNCHANGED <<driftVars, storeVars, op, histVars, storeHist>>

\* request_body = await request.json() if request.method != "GET" else {}:
\* json() raises on a body that is not JSON.
DP_Request(t) ==
    /\ pc[t] = "dp_request"
    /\ pc' = [pc EXCEPT ![t] =
                IF loc[t].request.method # "GET" /\ ~loc[t].request.json_ok
                THEN "dp_except" ELSE "dp_call_next"]
    /\ \E body \in RequestBodies :
          loc' = [loc EXCEPT
                    ![t].request_read = loc[t].request.method # "GET",
                    ![t].request_body =
                        IF loc[t].request.method = "GET"
                        THEN JsonObject(EmptyDict)
                        ELSE IF loc[t].request.json_ok THEN body ELSE NoJson]
    /\ UNCHANGED <<driftVars, storeVars, op, histVars, storeHist>>

\* response = await call_next(request), and the test of its status.
DP_CallNext(t) ==
    /\ pc[t] = "dp_call_next"
    /\ \/ \E resp \in Responses :
            /\ loc' = [loc EXCEPT ![t].calls = @ + 1, ![t].response = resp,
                                   ![t].downstream = resp]
            /\ pc' = [pc EXCEPT ![t] =
                        IF IsSuccess(resp.status)
                        THEN "dp_drain" ELSE "dp_audit"]
       \/ /\ loc' = [loc EXCEPT ![t].calls = @ + 1]
          /\ pc' = [pc EXCEPT ![t] = "dp_except"]
    /\ UNCHANGED <<driftVars, storeVars, op, histVars, storeHist>>

\* async for chunk in response.body_iterator: response_body += chunk.  The
\* iterator hands over its next chunk, or raises.
DP_Drain(t) ==
    /\ pc[t] = "dp_drain"
    /\ loc[t].response.body_iterator # <<>>
    /\ \/ /\ loc' = [loc EXCEPT
                       ![t].response_body =
                           @ \o Head(loc[t].response.body_iterator),
                       ![t].response.body_iterator = Tail(@)]
          /\ UNCHANGED pc
       \/ /\ pc' = [pc EXCEPT ![t] = "dp_except"]
          /\ loc' = [loc EXCEPT ![t].stream_raised = TRUE]
    /\ UNCHANGED <<driftVars, storeVars, op, histVars, storeHist>>

\* The iterator is exhausted: response = Response(content=response_body,
\* status_code=response.status_code, ...).
DP_Rebuild(t) ==
    /\ pc[t] = "dp_drain"
    /\ loc[t].response.body_iterator = <<>>
    /\ loc' = [loc EXCEPT ![t].response =
                              Rebuild(loc[t].response, loc[t].response_body)]
    /\ pc' = [pc EXCEPT ![t] = "dp_audit"]
    /\ UNCHANGED <<driftVars, storeVars, op, histVars, storeHist>>

\* _log_audit_info returns at once (lines 89-91).
DP_Skip(t) ==
    /\ pc[t] = "dp_audit"
    /\ SkipAudit(loc[t].response_body, loc[t].response.status)
    /\ pc' = [pc EXCEPT ![t] = "dp_return"]
    /\ UNCHANGED <<driftVars, storeVars, op, loc, histVars, storeHist>>

\* The extractor's exception leaves _log_audit_info.
DP_AuditFailed_propagates(t) ==
    /\ pc[t] = "dp_audit"
    /\ ~SkipAudit(loc[t].response_body, loc[t].response.status)
    /\ loc' = [loc EXCEPT ![t].audit_raised = TRUE]
    /\ pc' = [pc EXCEPT ![t] = "dp_except"]
    /\ UNCHANGED <<driftVars, storeVars, op, histVars, storeHist>>

\* An extractor raises; _log_audit_info logs the exception (lines 135-136).
DP_AuditFailed(t) ==
    /\ pc[t] = "dp_audit"
    /\ ~SkipAudit(loc[t].response_body, loc[t].response.status)
    /\ loc' = [loc EXCEPT ![t].audit_raised = TRUE]
    /\ pc' = [pc EXCEPT ![t] = "dp_return"]
    /\ UNCHANGED <<driftVars, storeVars, op, histVars, storeHist>>

\* log_inference raises after detect_drift has returned, while it assembles
\* the record (lines 94-128 of standard.py); _log_audit_info logs the
\* exception.
DP_LogRaised(t) ==
    /\ pc[t] = "li_record"
    /\ op[t] = "dispatch"
    /\ loc' = [loc EXCEPT ![t].audit_raised = TRUE]
    /\ pc' = [pc EXCEPT ![t] = "dp_return"]
    /\ UNCHANGED <<driftVars, storeVars, op, histVars, storeHist>>

\* _log_audit_info extracts the model name and the prompt from the request
\* body and the completion from the response body (lines 95-108); on a
\* request body that is not an object the extractor raises (DP_AuditFailed).
\* The score of lines 115-123 is not used afterwards.
DP_Extract(t) ==
    /\ pc[t] = "dp_audit"
    /\ ~SkipAudit(loc[t].response_body, loc[t].response.status)
    /\ loc[t].request_body.is_dict
    /\ loc' = [loc EXCEPT
                 ![t].model = extract_model_name(loc[t].request_body),
                 ![t].prompt = extract_prompt(loc[t].request_body),
                 ![t].completion =
                     extract_completion(loc[t].request_body,
                                        response_json(loc[t].response_body))]
    /\ pc' = [pc EXCEPT ![t] = "dp_log"]
    /\ UNCHANGED <<driftVars, storeVars, op, histVars, storeHist>>

\* _log_audit_info calls self.metrics_tracker.log_inference (line 126), in
\* the coroutine itself; rt is the time measured since request_time.
DP_Log(t, h, rt) ==
    /\ pc[t] = "dp_log"
    /\ DD_Enter(t, h, rt, NoTokens)
    /\ UNCHANGED op

\* return response (line 179)
DP_Return(t) ==
    /\ pc[t] = "dp_return"
    /\ loc' = [loc EXCEPT ![t].returned = loc[t].response]
    /\ pc' = [pc EXCEPT ![t] = "dp_returned"]
    /\ UNCHANGED <<driftVars, storeVars, op, histVars, storeHist>>

\* The exception is raised again.
DP_Except_reraise(t) ==
    /\ pc[t] = "dp_except"
    /\ pc' = [pc EXCEPT ![t] = "dp_raised"]
    /\ UNCHANGED <<driftVars, storeVars, op, loc, histVars, storeHist>>

\* except Exception: the response is returned if there is one, else
\* call_next is called and what it answers returned (lines 185-188).
DP_Except(t) ==
    /\ pc[t] = "dp_except"
    /\ IF loc[t].response # NoResponse
       THEN /\ loc' = [loc EXCEPT ![t].returned = loc[t].response]
            /\ pc' = [pc EXCEPT ![t] = "dp_returned"]
       ELSE CallNextAndReturn(t)
    /\ UNCHANGED <<driftVars, storeVars, op, histVars, storeHist>>

\* The caller has the response, or the exception.
DP_Done(t) ==
    /\ pc[t] \in {"dp_returned", "dp_raised"}
    /\ loc' = [loc EXCEPT ![t] = NoLocals]
    /\ pc' = [pc EXCEPT ![t] = "idle"]
    /\ UNCHANGED <<driftVars, storeVars, op, histVars, storeHist>>

\* ------------------------------------------------------ infer.record_metrics

\* The parameters of log_inference, and those without a default.
LogInferenceParams ==
    {"prompt", "completion", "model", "response_time_ms", "tokens_in",
     "tokens_out", "status"}

LogInferenceRequired == {"prompt", "completion", "model", "response_time_ms"}

\* The keyword arguments of the router's call (inference.py 61-70).
RecordMetricsKwargs ==
    {"prompt", "completion", "model", "hallucination_score", "drift_detected",
     "response_time_ms", "tokens_in", "tokens_out"}

\* Any keyword is taken.
AcceptsKeywordsAlways(kwargs) == TRUE

\* A call with keyword arguments binds: every keyword is a parameter and
\* every parameter without a default is given.  Otherwise it is a TypeError.
AcceptsKeywords(kwargs) ==
    /\ kwargs \subseteq LogInferenceParams
    /\ LogInferenceRequired \subseteq kwargs

\* The background task of an infer call runs: record_metrics().
BG_Call(t) ==
    /\ pc[t] = "idle"
    /\ op' = [op EXCEPT ![t] = "record_metrics"]
    /\ loc' = [loc EXCEPT ![t] = [NoLocals EXCEPT !.at_call = log_file]]
    /\ pc' = [pc EXCEPT ![t] = "bg_call"]
    /\ UNCHANGED <<driftVars, storeVars, histVars, storeHist>>

\* metrics.log_inference(prompt=..., hallucination_score=..., ...): the
\* call binds and log_inference runs, or the task ends with the TypeError.
BG_LogInference(t, h, rt) ==
    /\ pc[t] = "bg_call"
    /\ IF AcceptsKeywords(RecordMetricsKwargs)
       THEN /\ DD_Enter(t, h, rt, NoTokens)
            /\ UNCHANGED op
       ELSE /\ pc' = [pc EXCEPT ![t] = "bg_raised"]
            /\ UNCHANGED <<driftVars, storeVars, op, loc, histVars,
                           storeHist>>

\* The task is over; its exception is logged by the server.
BG_Done(t) ==
    /\ pc[t] = "bg_raised"
    /\ loc' = [loc EXCEPT ![t] = NoLocals]
    /\ pc' = [pc EXCEPT ![t] = "idle"]
    /\ UNCHANGED <<driftVars, storeVars, op, histVars, storeHist>>

\* ------------------------------------------- StandardMetricsTracker()

ConstructorArgs ==
    [storage_path : {"data/metrics", "data/other"},
     drift_detector : {"default", "given"}]

\* An object that super().__new__(cls) has created: no attribute is set.
\* locks, detectors, loads and inits count how often __init__ created the
\* lock, set the detectors, loaded the log and passed line 44.
NoObject ==
    [storage_path |-> "", drift_detector |-> "", locks |-> 0, detectors |-> 0,
     loads |-> 0, inits |-> 0]

\* The object a completed StandardMetricsTracker() leaves.
BuiltObject ==
    [storage_path |-> DefaultArgs.storage_path,
     drift_detector |-> DefaultArgs.drift_detector,
     locks |-> 1, detectors |-> 1, loads |-> 1, inits |-> 1]

AlreadyInitializedNever(o) == FALSE

\* hasattr(self, "storage_path")
AlreadyInitialized(o) == o.storage_path # ""

Constructing == {t \in Threads : op[t] = "construct" /\ pc[t] # "idle"}

\* StandardMetricsTracker(args) is called.
SN_Call(t, a) ==
    /\ pc[t] = "idle"
    /\ Len(constructed) + Cardinality(Constructing) < MaxConstructions
    /\ op' = [op EXCEPT ![t] = "construct"]
    /\ loc' = [loc EXCEPT ![t] = [NoLocals EXCEPT !.args = a]]
    /\ pc' = [pc EXCEPT ![t] = "sn_check"]
    /\ UNCHANGED <<driftVars, storeVars, histVars, storeHist>>

\* __new__: if cls._instance is None
SN_Check(t) ==
    /\ pc[t] = "sn_check"
    /\ pc' = [pc EXCEPT ![t] =
                IF _instance = NoInstance THEN "sn_create" ELSE "sn_return"]
    /\ UNCHANGED <<driftVars, storeVars, op, loc, histVars, storeHist>>

\* cls._instance = super(StandardMetricsTracker, cls).__new__(cls)
SN_Create(t) ==
    /\ pc[t] = "sn_create"
    /\ objects' = Append(objects, NoObject)
    /\ _instance' = Len(objects) + 1
    /\ pc' = [pc EXCEPT ![t] = "sn_return"]
    /\ UNCHANGED <<current_window, detectorConfig, constructed, storeVars, op,
                   loc, histVars, storeHist>>

\* return cls._instance; __init__ is then called on the object returned.
SN_Return(t) ==
    /\ pc[t] = "sn_return"
    /\ loc' = [loc EXCEPT ![t].self = _instance]
    /\ pc' = [pc EXCEPT ![t] = "si_check"]
    /\ UNCHANGED <<driftVars, storeVars, op, histVars, storeHist>>

\* The constructor call returns self to its caller.
Constructed(t) ==
    /\ constructed' =
           Append(constructed, [self |-> loc[t].self, args |-> loc[t].args])
    /\ pc' = [pc EXCEPT ![t] = "sn_returned"]

\* __init__: if hasattr(self, "storage_path"): return
SI_Check(t) ==
    /\ pc[t] = "si_check"
    /\ IF AlreadyInitialized(objects[loc[t].self])
       THEN /\ Constructed(t)
            /\ UNCHANGED objects
       ELSE /\ objects' = [objects EXCEPT ![loc[t].self].inits = @ + 1]
            /\ pc' = [pc EXCEPT ![t] = "si_path"]
            /\ UNCHANGED constructed
    /\ UNCHANGED <<current_window, detectorConfig, _instance, storeVars, op,
                   loc, histVars, storeHist>>

\* BaseMetricsTracker.__init__: self.storage_path = storage_path
SI_Path(t) ==
    /\ pc[t] = "si_path"
    /\ objects' = [objects EXCEPT
                     ![loc[t].self].storage_path = loc[t].args.storage_path]
    /\ pc' = [pc EXCEPT ![t] = "si_base"]
    /\ UNCHANGED <<current_window, detectorConfig, _instance, constructed,
                   storeVars, op, loc, histVars, storeHist>>

\* os.makedirs(...); self.metrics = []; self._lock = threading.Lock()
SI_Base(t) ==
    /\ pc[t] = "si_base"
    /\ objects' = [objects EXCEPT ![loc[t].self].locks = @ + 1]
    /\ pc' = [pc EXCEPT ![t] = "si_detectors"]
    /\ UNCHANGED <<current_window, detectorConfig, _instance, constructed,
                   storeVars, op, loc, histVars, storeHist>>

\* self.hallucination_detector = ...; self.drift_detector = drift_detector
\* or DriftDetector(); self.process = ...
SI_Detectors(t) ==
    /\ pc[t] = "si_detectors"
    /\ objects' = [objects EXCEPT
                     ![loc[t].self].drift_detector = loc[t].args.drift_detector,
                     ![loc[t].self].detectors = @ + 1]
    /\ pc' = [pc EXCEPT ![t] = "si_load"]
    /\ UNCHANGED <<current_window, detectorConfig, _instance, constructed,
                   storeVars, op, loc, histVars, storeHist>>

\* self._load_metrics(), and __init__ returns.
SI_Load(t) ==
    /\ pc[t] = "si_load"
    /\ objects' = [objects EXCEPT ![loc[t].self].loads = @ + 1]
    /\ Constructed(t)
    /\ UNCHANGED <<current_window, detectorConfig, _instance, storeVars, op,
                   loc, histVars, storeHist>>

\* The caller has the instance.
SN_Done(t) ==
    /\ pc[t] = "sn_returned"
    /\ loc' = [loc EXCEPT ![t] = NoLocals]
    /\ pc' = [pc EXCEPT ![t] = "idle"]
    /\ UNCHANGED <<driftVars, storeVars, op, histVars, storeHist>>

\* The steps of a constructor call, for thread t.
ConstructStep(t) ==
    \/ SN_Check(t)
    \/ SN_Create(t)
    \/ SN_Return(t)
    \/ SI_Check(t)
    \/ SI_Path(t)
    \/ SI_Base(t)
    \/ SI_Detectors(t)
    \/ SI_Load(t)
    \/ SN_Done(t)

\* ---------------------------------------------------- HallucinationDetector

\* The three partial scores are counted in sixtieths (1.0 is One) and the
\* weighted sum, whose weights are tenths, in six-hundredths (1.0 is Unit), so
\* that every quotient the model's inputs produce is a whole number.
One == 60

Unit == 10 * One

Max(a, b) == IF a > b THEN a ELSE b

Min(a, b) == IF a < b THEN a ELSE b

\* hallucination_indicators, each a text in pieces.
hallucination_indicators ==
    << <<"i'm", "not", "sure">>,
       <<"i", "don't", "know">>,
       <<"i", "think">>,
       <<"perhaps">>,
       <<"probably">>,
       <<"it's", "possible">>,
       <<"might", "be">>,
       <<"it's", "likely">>,
       <<"it's", "probable">> >>

\* str.lower() of one piece.
LowerPiece(p) ==
    CASE p = "Perhaps" -> "perhaps"
      [] p = "I" -> "i"
      [] p = "Paris" -> "paris"
      [] OTHER -> p

\* prompt.lower(), completion.lower()
lower(text) == [i \in 1..Len(text) |-> LowerPiece(text[i])]

\* re.findall(r'\b\w+\b', ...) of one piece: an apostrophe is no word
\* character, so it splits the piece into two words.
WordsOfPiece(p) ==
    CASE p = "i'm" -> {"i", "m"}
      [] p = "don't" -> {"don", "t"}
      [] p = "it's" -> {"it", "s"}
      [] OTHER -> {p}

\* set(re.findall(r'\b\w+\b', text))
words(text) == UNION {WordsOfPiece(text[i]) : i \in 1..Len(text)}

\* hesitation_score += 0.1
HesitationStep == 6

\* min(hesitation_score, 0.5)
HesitationCap == 30

\* Lines 78-82: one step for every indicator that is in the completion.
hesitation_score(completion_lower) ==
    LET found == {i \in 1..Len(hallucination_indicators) :
                     IsSubstring(hallucination_indicators[i],
                                 completion_lower)}
    IN  Min(HesitationStep * Cardinality(found), HesitationCap)

\* overlap_score = 0.5
OverlapDefault == 30

\* 0.7 - overlap_ratio
OverlapBase == 42

\* Lines 85-94.
overlap_score(prompt_lower, completion_lower) ==
    LET prompt_words == words(prompt_lower)
        completion_words == words(completion_lower)
        common_words == prompt_words \cap completion_words
        overlap_ratio == (One * Cardinality(common_words))
                             \div Max(1, Cardinality(completion_words))
    IN  IF Cardinality(prompt_words) = 0 \/ Cardinality(completion_words) = 0
        THEN OverlapDefault
        ELSE Max(0, OverlapBase - overlap_ratio)

\* semantic_divergence = 0.5
DivergenceDefault == 30

\* Lines 97-104: 1 - sim, or the default when the embedder or the cosine
\* raises.
semantic_divergence(sim, embedded) ==
    IF embedded THEN One - sim ELSE DivergenceDefault

\* The weights of line 108, in tenths.
DivergenceWeight == 6
HesitationWeight == 2
OverlapWeight == 2

\* Line 108.
weighted_sum(divergence, hesitation, overlap) ==
    (divergence * DivergenceWeight) + (hesitation * HesitationWeight)
        + (overlap * OverlapWeight)

\* The value returned without the clamp.
np_clip_skipped(x, lo, hi) == x

\* np.clip(x, lo, hi)
np_clip(x, lo, hi) == IF x < lo THEN lo ELSE IF x > hi THEN hi ELSE x

\* return 0.5  # Default value in case of error
ScoreDefault == 300

\* _heuristic_score without the try of lines 97-104: a failure of the
\* embedder leaves the function and the caller's default takes its place.
_heuristic_score_embed_unguarded(in, embedded) ==
    IF embedded
    THEN np_clip(weighted_sum(semantic_divergence(in.sim, embedded),
                              hesitation_score(lower(in.completion)),
                              overlap_score(lower(in.prompt),
                                            lower(in.completion))),
                 0, Unit)
    ELSE ScoreDefault

\* _heuristic_score of two strings; embedded tells whether lines 98-100
\* went through.
_heuristic_score(in, embedded) ==
    LET prompt_lower == lower(in.prompt)
        completion_lower == lower(in.completion)
    IN  np_clip(weighted_sum(semantic_divergence(in.sim, embedded),
                             hesitation_score(completion_lower),
                             overlap_score(prompt_lower, completion_lower)),
                0, Unit)

\* score_hallucination: the heuristic score, or the default when the
\* heuristic raises (an argument that is no string has no lower()).
score_hallucination(in, embedded) ==
    IF in.is_str THEN _heuristic_score(in, embedded) ELSE ScoreDefault

\* get_fact_consistency: it scores the pair again and returns 1.0 - score.
get_fact_consistency(in, embedded) == Unit - score_hallucination(in, embedded)

\* The cosine similarities the embedder gives, in sixtieths: opposite,
\* orthogonal, equal.
Sims == {-One, 0, One}

Prompts ==
    {<<>>,
     <<"capital", "of", "france">>,
     <<"Paris", "perhaps">>}

Completions ==
    {<<>>,
     <<"paris">>,
     <<"berlin">>,
     <<"Perhaps", "paris">>,
     <<"perhaps", "perhaps", "perhaps">>,
     <<"I", "think", "it's", "likely", "paris">>,
     <<"perhaps", "probably", "i", "think", "might", "be",
       "it's", "possible", "it's", "likely">>}

\* The pairs scored: strings, and one pair with an argument that is None.
Inputs ==
    [prompt : Prompts, completion : Completions, sim : Sims, is_str : {TRUE}]
        \cup {[NoInput EXCEPT !.is_str = FALSE]}

\* hallucination_score < 0.8, in six-hundredths.
FactConsistencyLimit == FactConsistencyBelow * One

\* score = detector.score_hallucination(prompt, completion), called directly.
SH_Call(t, in) ==
    /\ pc[t] = "idle"
    /\ op' = [op EXCEPT ![t] = "score_hallucination"]
    /\ loc' = [loc EXCEPT ![t] = [NoLocals EXCEPT !.input = in]]
    /\ pc' = [pc EXCEPT ![t] = "sh_score"]
    /\ UNCHANGED <<driftVars, storeVars, histVars, storeHist>>

\* The body of score_hallucination (lines 41-46); the embedder works or
\* raises.
SH_Score(t) ==
    /\ pc[t] = "sh_score"
    /\ \E embedded \in BOOLEAN :
          loc' = [loc EXCEPT
                     ![t].score = score_hallucination(loc[t].input, embedded),
                     ![t].hesitation =
                         IF loc[t].input.is_str
                         THEN hesitation_score(lower(loc[t].input.completion))
                         ELSE -1,
                     ![t].embed_raised = loc[t].input.is_str /\ ~embedded]
    /\ pc' = [pc EXCEPT ![t] = "sh_returned"]
    /\ UNCHANGED <<driftVars, storeVars, op, histVars, storeHist>>

\* The caller has the score.
SH_Done(t) ==
    /\ pc[t] = "sh_returned"
    /\ loc' = [loc EXCEPT ![t] = NoLocals]
    /\ pc' = [pc EXCEPT ![t] = "idle"]
    /\ UNCHANGED <<driftVars, storeVars, op, histVars, storeHist>>

\* log_inference(prompt, completion, ...), followed through the lines that
\* compute the record's scores (84 and 99-114).
LS_Call(t, in) ==
    /\ pc[t] = "idle"
    /\ op' = [op EXCEPT ![t] = "log_inference"]
    /\ loc' = [loc EXCEPT ![t] = [NoLocals EXCEPT !.input = in]]
    /\ pc' = [pc EXCEPT ![t] = "ls_score"]
    /\ UNCHANGED <<driftVars, storeVars, histVars, storeHist>>

\* Line 84, and the record's "hallucination_score" (line 105).
LS_Score(t) ==
    /\ pc[t] = "ls_score"
    /\ \E embedded \in BOOLEAN :
          LET hallucination_score ==
                  score_hallucination(loc[t].input, embedded)
          IN  loc' = [loc EXCEPT
                         ![t].score = hallucination_score,
                         ![t].scores =
                             "hallucination_score" :> hallucination_score,
                         ![t].embed_raised =
                             loc[t].input.is_str /\ ~embedded]
    /\ pc' = [pc EXCEPT ![t] = "ls_fact"]
    /\ UNCHANGED <<driftVars, storeVars, op, histVars, storeHist>>

\* Lines 112-114: below the limit, get_fact_consistency scores the pair a
\* second time, with the embedder working or raising anew.
LS_Fact(t) ==
    /\ pc[t] = "ls_fact"
    /\ IF loc[t].score < FactConsistencyLimit
       THEN \E embedded \in BOOLEAN :
               loc' = [loc EXCEPT
                          ![t].scores =
                              @ @@ ("fact_consistency" :>
                                  get_fact_consistency(loc[t].input,
                                                       embedded)),
                          ![t].rescore_raised =
                              loc[t].input.is_str /\ ~embedded]
       ELSE UNCHANGED loc
    /\ pc' = [pc EXCEPT ![t] = "ls_returned"]
    /\ UNCHANGED <<driftVars, storeVars, op, histVars, storeHist>>

\* The record goes on to _write_to_disk and to the caller.
LS_Done(t) ==
    /\ pc[t] = "ls_returned"
    /\ loc' = [loc EXCEPT ![t] = NoLocals]
    /\ pc' = [pc EXCEPT ![t] = "idle"]
    /\ UNCHANGED <<driftVars, storeVars, op, histVars, storeHist>>

\* ----------------------------------------------------------- specifications

Init ==
    /\ current_window = <<>>
    /\ window_size \in {WindowSize, DefaultWindowSize}
    /\ reference_data_path \in RefPaths
    /\ reference_stats = _load_reference_data(reference_data_path)
    /\ pc = [t \in Threads |-> "idle"]
    /\ op = [t \in Threads |-> "none"]
    /\ loc = [t \in Threads |-> NoLocals]
    /\ observed = <<>>
    /\ results = <<>>
    /\ log_file = NoFile
    /\ backups = [ts \in {} |-> <<>>]
    /\ metrics = _load_metrics(NoFile)
    /\ lock = 0
    /\ now = 0
    /\ committed = {}
    /\ reset_calls = 0
    /\ log_events = <<>>
    /\ audit_path_filter \in Filters
    /\ \/ /\ _instance = NoInstance
          /\ objects = <<>>
          /\ constructed = <<>>
       \/ /\ _instance = 1
          /\ objects = <<BuiltObject>>
          /\ constructed = <<[self |-> 1, args |-> DefaultArgs]>>

\* A detector on its own: no middleware is installed.
InitDetector ==
    /\ Init
    /\ audit_path_filter = NoFilter
    /\ window_size = WindowSize
    /\ _instance # NoInstance

\* One caller of detect_drift.
NextDrift ==
    \/ \E h \in Scores, rt \in Times, tc \in TokenCounts : DD_Call(1, h, rt, tc)
    \/ DD_Limit(1)
    \/ DD_Pop(1)
    \/ DD_Check(1)
    \/ DD_Stats(1)

SpecDrift == InitDetector /\ [][NextDrift]_vars

\* A detector of the default window size with a reference hallucination
\* mean of 0.1 observes window_size scores of 0.1 and then one of 0.9, with
\* response times at or below the reference.
InitScenario ==
    /\ Init
    /\ audit_path_filter = NoFilter
    /\ window_size = DefaultWindowSize
    /\ reference_data_path \in {"both", "only_hall"}
    /\ _instance # NoInstance

ScenarioScore(i) == IF i <= DefaultWindowSize THEN 1 ELSE 9

ScenarioTimes == {1, 2}

SC_Call(t, rt) ==
    /\ pc[t] = "idle"
    /\ Len(observed) < DefaultWindowSize + 1
    /\ op' = [op EXCEPT ![t] = "detect_drift"]
    /\ DD_Append(t, ScenarioScore(Len(observed) + 1), rt, NoTokens)

NextScenario ==
    \/ \E rt \in ScenarioTimes : SC_Call(1, rt)
    \/ DD_Limit(1)
    \/ DD_Pop(1)
    \/ DD_Check(1)
    \/ DD_Stats(1)

SpecScenario == InitScenario /\ [][NextScenario]_vars

\* Two threads call detect_drift on one detector.
ConcScores == {1}
ConcTimes == {1, 4}

NextDriftConc ==
    \E t \in Threads :
        \/ \E h \in ConcScores, rt \in ConcTimes : DD_Call(t, h, rt, NoTokens)
        \/ DD_Limit(t)
        \/ DD_Pop(t)
        \/ DD_Check(t)
        \/ DD_Stats(t)

SpecDriftConc == InitDetector /\ [][NextDriftConc]_vars

\* The store as StandardMetricsTracker constructs it by default: its
\* DriftDetector() has no reference file.
InitStore == InitDetector /\ reference_data_path = "none"

StoreScores == {1}
StoreTimes == {1}

\* The steps of log_inference, for thread t.
LogInferenceStep(t) ==
    \/ DD_Limit(t)
    \/ DD_Pop(t)
    \/ DD_Check(t)
    \/ LI_Record(t)
    \/ WD_Lock(t)
    \/ WD_Open(t)
    \/ WD_Write(t)
    \/ WD_Close(t)
    \/ LI_Return(t)

\* The steps of reset_metrics and of reset_metrics_data, for thread t.
ResetStep(t) ==
    \/ RM_Exists(t)
    \/ RM_Copy(t)
    \/ RM_Truncate(t)
    \/ RM_Clear(t)
    \/ RM_Failed(t)
    \/ RM_Returned(t)
    \/ RD_Exists(t)
    \/ RD_Remove(t)
    \/ RD_Reload(t)

\* One thread calls log_inference, reset_metrics and reset_metrics_data, one
\* call after the other.
NextStoreSeq ==
    \/ \E h \in StoreScores, rt \in StoreTimes : LI_Call(1, h, rt, NoTokens)
    \/ LogInferenceStep(1)
    \/ RM_Call(1)
    \/ RD_Call(1)
    \/ ResetStep(1)
    \/ GM_Call(1)
    \/ GetMetricsStep(1)
    \/ Tick

SpecStoreSeq == InitStore /\ [][NextStoreSeq]_vars

\* A thread that has called a reset runs it to its end.
SpecStoreSeqLive == SpecStoreSeq /\ WF_vars(ResetStep(1))

\* Thread 1 logs inferences while thread 2 resets.
NextStore ==
    \/ \E h \in StoreScores, rt \in StoreTimes : LI_Call(1, h, rt, NoTokens)
    \/ LogInferenceStep(1)
    \/ RM_Call(2)
    \/ RD_Call(2)
    \/ ResetStep(2)
    \/ GM_Call(2)
    \/ GetMetricsStep(2)
    \/ Tick

SpecStore == InitStore /\ [][NextStore]_vars

\* Several threads log inferences; nothing resets.
NextAppend ==
    \E t \in Threads :
        \/ \E h \in StoreScores, rt \in StoreTimes : LI_Call(t, h, rt, NoTokens)
        \/ LogInferenceStep(t)

SpecAppend == InitStore /\ [][NextAppend]_vars

\* A store whose drift detector has reference statistics.  One thread logs
\* inferences and reads the log back; nothing resets.
InitRoundTrip ==
    /\ InitDetector
    /\ reference_data_path = "both"

NextRoundTrip ==
    \/ \E h \in Scores, rt \in StoreTimes : LI_Call(1, h, rt, NoTokens)
    \/ DD_Limit(1)
    \/ DD_Pop(1)
    \/ DD_Check(1)
    \/ DD_Stats(1)
    \/ LI_RecordAny(1)
    \/ WD_Lock(1)
    \/ WD_Open(1)
    \/ WD_Write(1)
    \/ WD_Close(1)
    \/ LI_Return(1)
    \/ GM_Call(1)
    \/ GetMetricsStep(1)

SpecRoundTrip == InitRoundTrip /\ [][NextRoundTrip]_vars

\* Thread 1 logs inferences; both threads read the log of the shared store.
NextReload ==
    \/ \E h \in StoreScores, rt \in StoreTimes : LI_Call(1, h, rt, NoTokens)
    \/ LogInferenceStep(1)
    \/ \E t \in Threads :
          \/ GM_Call(t)
          \/ GetMetricsStep(t)

SpecReload == InitStore /\ [][NextReload]_vars

\* The middleware on the default store: one event loop dispatches the
\* calls, one after the other.
InitDispatch ==
    /\ Init
    /\ reference_data_path = "none"
    /\ window_size = WindowSize
    /\ _instance # NoInstance

NextDispatch ==
    \/ \E req \in Requests : DP_Call(1, req)
    \/ DP_Pass(1)
    \/ DP_Request(1)
    \/ DP_CallNext(1)
    \/ DP_Drain(1)
    \/ DP_Rebuild(1)
    \/ DP_Skip(1)
    \/ DP_Extract(1)
    \/ DP_AuditFailed(1)
    \/ DP_LogRaised(1)
    \/ \E h \in StoreScores, rt \in StoreTimes : DP_Log(1, h, rt)
    \/ LogInferenceStep(1)
    \/ DP_Return(1)
    \/ DP_Except(1)
    \/ DP_Done(1)

SpecDispatch == InitDispatch /\ [][NextDispatch]_vars

\* The application: the middleware dispatches the calls and the router's
\* background tasks run in between, on the one event loop.
NextInfer ==
    \/ NextDispatch
    \/ BG_Call(1)
    \/ \E h \in StoreScores, rt \in StoreTimes : BG_LogInference(1, h, rt)
    \/ BG_Done(1)

SpecInfer == InitDispatch /\ [][NextInfer]_vars

\* The steps of a dispatch that has been called.
DispatchStep(t) ==
    \/ DP_Pass(t)
    \/ DP_Request(t)
    \/ DP_CallNext(t)
    \/ DP_Drain(t)
    \/ DP_Rebuild(t)
    \/ DP_Skip(t)
    \/ DP_Extract(t)
    \/ DP_AuditFailed(t)
    \/ \E h \in StoreScores, rt \in StoreTimes : DP_Log(t, h, rt)
    \/ DP_LogRaised(t)
    \/ LogInferenceStep(t)
    \/ DP_Return(t)
    \/ DP_Except(t)
    \/ DP_Done(t)

\* The event loop runs a coroutine it has started until it returns; the
\* handler and the body stream answer or raise.
SpecDispatchLive == SpecDispatch /\ WF_vars(DispatchStep(1))

\* A process in which StandardMetricsTracker has not been constructed yet.
InitProcess ==
    /\ Init
    /\ audit_path_filter = NoFilter
    /\ window_size = WindowSize
    /\ reference_data_path = "none"
    /\ _instance = NoInstance

\* One thread constructs the store, one call after the other.
NextSingleton ==
    \/ \E a \in ConstructorArgs : SN_Call(1, a)
    \/ ConstructStep(1)

SpecSingleton == InitProcess /\ [][NextSingleton]_vars

\* Several threads construct the store.
NextSingletonConc ==
    \E t \in Threads :
        \/ \E a \in ConstructorArgs : SN_Call(t, a)
        \/ ConstructStep(t)

SpecSingletonConc == InitProcess /\ [][NextSingletonConc]_vars

\* One thread logs inferences of several models, resets the log and asks
\* for the resource usage statistics, one call after the other.
NextStats ==
    \/ \E m \in ModelNames : LI_CallWith(1, m)
    \/ \E h \in StoreScores, rt \in StoreTimes : LI_Score(1, h, rt)
    \/ LogInferenceStep(1)
    \/ RM_Call(1)
    \/ RM_Exists(1)
    \/ RM_Copy(1)
    \/ RM_Truncate(1)
    \/ RM_Clear(1)
    \/ RM_Failed(1)
    \/ RM_Returned(1)
    \/ \E m \in ModelFilters : RU_Call(1, m)
    \/ GM_Open(1)
    \/ GM_Read(1)
    \/ GM_Return(1)
    \/ RU_Stats(1)
    \/ RU_Done(1)

SpecStats == InitStore /\ [][NextStats]_vars

\* A store whose drift detector has reference statistics: one thread logs
\* inferences and resets the log, one call after the other.
NextResetDrift ==
    \/ \E h \in Scores, rt \in StoreTimes : LI_Call(1, h, rt, NoTokens)
    \/ DD_Limit(1)
    \/ DD_Pop(1)
    \/ DD_Check(1)
    \/ DD_Stats(1)
    \/ LI_Record(1)
    \/ WD_Lock(1)
    \/ WD_Open(1)
    \/ WD_Write(1)
    \/ WD_Close(1)
    \/ LI_Return(1)
    \/ RM_Call(1)
    \/ RM_Exists(1)
    \/ RM_Copy(1)
    \/ RM_Truncate(1)
    \/ RM_Clear(1)
    \/ RM_Failed(1)
    \/ RM_Returned(1)

SpecResetDrift == InitRoundTrip /\ [][NextResetDrift]_vars

\* Several threads log inferences while the clock runs; the records carry
\* their request_id.
NextRequestId ==
    \/ \E t \in Threads :
          \/ \E h \in StoreScores, rt \in StoreTimes :
                LI_Call(t, h, rt, NoTokens)
          \/ DD_Limit(t)
          \/ DD_Pop(t)
          \/ DD_Check(t)
          \/ LI_RecordTimed(t)
          \/ WD_Lock(t)
          \/ WD_Open(t)
          \/ WD_Write(t)
          \/ WD_Close(t)
          \/ LI_Return(t)
    \/ Tick

SpecRequestId == InitStore /\ [][NextRequestId]_vars

\* The hallucination detector alone: pairs are scored, directly and by
\* log_inference, one call after the other.
NextScore ==
    \/ \E in \in Inputs : SH_Call(1, in)
    \/ SH_Score(1)
    \/ SH_Done(1)
    \/ \E in \in Inputs : LS_Call(1, in)
    \/ LS_Score(1)
    \/ LS_Fact(1)
    \/ LS_Done(1)

SpecScore == InitStore /\ [][NextScore]_vars

\* =================================================================== claims

\* The last n elements of a sequence.
LastN(q, n) == SubSeq(q, Len(q) - n + 1, Len(q))

IsPrefix(a, b) == Len(a) <= Len(b) /\ a = SubSeq(b, 1, Len(a))

\* Record r is a complete line of content d.
InContent(r, d) ==
    \E i \in 1..Len(TextLines(d)) :
        Parseable(TextLines(d)[i]) /\ TextLines(d)[i][1].rec = r

HasBackup(ts, d) == ts \in DOMAIN backups /\ backups[ts] = d

AllIdle == \A t \in Threads : pc[t] = "idle"

\* ---- C1 (SpecDispatch).  When dispatch has returned a downstream response
\* of status >= 400, the metrics log is what it was when dispatch was
\* called, whatever the request, its body and the response's body are; and
\* while dispatch holds such a response the log has not changed.
C1_NoRecordForErrorStatus ==
    /\ (pc[1] = "dp_returned" /\ loc[1].returned.status >= 400) =>
           log_file = loc[1].log_at_call
    /\ (op[1] = "dispatch" /\ pc[1] # "idle" /\ loc[1].response.status >= 400)
           => log_file = loc[1].log_at_call

\* dispatch returns a 404 with a body on an audited path, after an earlier
\* call was recorded.
C1_Witness ==
    /\ pc[1] = "dp_returned"
    /\ loc[1].returned.status = 404
    /\ loc[1].returned.body_iterator # <<>>
    /\ loc[1].response = loc[1].returned
    /\ _should_audit_path(audit_path_filter, loc[1].request.path)
    /\ audit_path_filter # NoFilter
    /\ loc[1].log_at_call.data # <<>>

\* ---- C2 (SpecStore).  Every record whose append to metrics.jsonl completed
\* is a complete line of the current log or of some backup file, whatever
\* appends and resets (reset_metrics, reset_metrics_data) have run and
\* however they interleaved.
C2_HistoryNeverLost ==
    \A r \in committed :
        \/ InContent(r, log_file.data)
        \/ \E ts \in DOMAIN backups : InContent(r, backups[ts])

\* ---- C3 (SpecStoreSeq), as stated.  A reset_metrics call on an existing
\* log, with nothing running concurrently, returns true having written a
\* backup equal to the log at the call, truncated the log and cleared the
\* cache.
C3_ResetAlwaysSucceeds ==
    (pc[1] = "rm_returned" /\ loc[1].at_call.exists) =>
        /\ loc[1].ret
        /\ HasBackup(loc[1].backup_ts, loc[1].at_call.data)
        /\ log_file.exists /\ log_file.data = <<>>
        /\ metrics = <<>>

\* ---- C3 (SpecStoreSeq), amended.  A reset_metrics call on an existing log,
\* with nothing running concurrently: before the log is truncated, the
\* backup of the call's timestamp holds the log's content at the call and
\* the log is still that content; when neither the copy nor the truncating
\* open fails, the call returns true with that backup in place, the log
\* empty and the cache cleared; when one of them fails it returns false
\* and the log is unchanged.
C3_ResetBacksUpThenTruncates ==
    /\ (pc[1] = "rm_truncate" /\ loc[1].at_call.exists) =>
        /\ HasBackup(loc[1].backup_ts, loc[1].at_call.data)
        /\ log_file = loc[1].at_call
    /\ (pc[1] = "rm_returned" /\ loc[1].at_call.exists /\ ~loc[1].io_failed) =>
        /\ loc[1].ret
        /\ HasBackup(loc[1].backup_ts, loc[1].at_call.data)
        /\ log_file.exists /\ log_file.data = <<>>
        /\ metrics = <<>>
    /\ (pc[1] = "rm_returned" /\ loc[1].at_call.exists /\ loc[1].io_failed) =>
        /\ ~loc[1].ret
        /\ log_file = loc[1].at_call

\* A reset of a log of two lines, loaded in the cache, has returned true.
C3_Witness ==
    /\ pc[1] = "rm_returned"
    /\ loc[1].ret
    /\ Len(TextLines(loc[1].at_call.data)) >= 2
    /\ op[1] = "reset_metrics"

TruncatingStep ==
    \E t \in Threads : pc[t] \in {"rm_truncate", "rd_remove"} /\ pc'[t] # pc[t]

\* ---- C5 (SpecStoreSeq).  Between resets the log is append-only: every step
\* that is not a reset's truncation or removal leaves the log's previous
\* content as a prefix of its new content.
C5_AppendOnlyBetweenResets ==
    [][~TruncatingStep => IsPrefix(log_file.data, log_file'.data)]_vars

\* The log holds two lines: an append was made to a log that held a line.
C5_Witness == Len(TextLines(log_file.data)) >= 2 /\ pc[1] = "li_return"

\* ---- C6 (SpecDrift).  When detect_drift has returned, the window holds at
\* most window_size samples, and they are the last min(n, window_size) of
\* the n observations, oldest first.
C6_WindowIsLastObservations ==
    pc[1] = "idle" =>
        /\ Len(current_window) <= WindowSize
        /\ current_window = LastN(observed, Min(Len(observed), WindowSize))

\* One observation more than the window holds has been made, and the first
\* one, which differs from the second, is gone.
C6_Witness ==
    /\ pc[1] = "idle"
    /\ Len(observed) = WindowSize + 1
    /\ observed[1] # observed[2]
    /\ current_window[1] = observed[2]

\* ---- C7 (SpecDriftConc).  With several threads calling detect_drift, the
\* window is not corrupted: once window_size calls have returned it never
\* holds fewer than window_size samples, and exactly window_size when no
\* call is running.
C7_WindowStaysFull ==
    Len(results) >= WindowSize =>
        /\ Len(current_window) >= WindowSize
        /\ AllIdle => Len(current_window) = WindowSize

\* ---- C8 (SpecDrift).  Each of the first window_size - 1 observations
\* returns false, whatever the values and the reference statistics.
C8_FalseUntilWindowFull ==
    \A i \in 1..Len(results) : i < WindowSize => ~results[i]

\* An observation has returned with the window not yet full, and the two
\* tests on that window would have flagged drift.
C8_Witness ==
    /\ pc[1] = "idle"
    /\ results # <<>>
    /\ Len(current_window) < WindowSize
    /\ DriftOf(current_window, reference_stats)

\* ---- C9 (SpecDrift).  Without a reference file, or with one that cannot
\* be loaded, the reference statistics are empty; and with empty reference
\* statistics every observation returns false while its sample is still
\* appended to the window.
C9_NoReferenceNoDrift ==
    /\ reference_data_path \in {"none", "unreadable"} =>
          reference_stats = EmptyStats
    /\ reference_stats = EmptyStats =>
          /\ \A i \in 1..Len(results) : ~results[i]
          /\ (pc[1] = "idle" /\ observed # <<>>) =>
                /\ current_window # <<>>
                /\ current_window[Len(current_window)] = observed[Len(observed)]

\* The reference file could not be loaded, the window is full, and against
\* the reference statistics of another file its means would be drifting.
C9_Witness ==
    /\ reference_data_path = "unreadable"
    /\ pc[1] = "idle"
    /\ Len(results) > WindowSize
    /\ Len(current_window) = WindowSize
    /\ DriftOf(current_window, RefFiles["both"].record)

\* ---- C10 (SpecDrift).  With a full window and reference statistics given,
\* a metric whose reference mean is 0 or missing does not contribute: the
\* flag returned is the test of the other metric alone.
C10_ZeroReferenceDoesNotContribute ==
    (/\ pc[1] = "idle"
     /\ results # <<>>
     /\ Len(current_window) = WindowSize
     /\ reference_stats # EmptyStats) =>
        /\ RefGet(reference_stats, HallucinationKey) = 0 =>
              results[Len(results)] = response_time_drift(current_window, reference_stats)
        /\ RefGet(reference_stats, ResponseTimeKey) = 0 =>
              results[Len(results)] = hallucination_drift(current_window, reference_stats)

\* The hallucination reference is 0, the window is full of scores of 0.9, and
\* the flag returned is false.
C10_Witness ==
    /\ pc[1] = "idle"
    /\ Len(current_window) = WindowSize
    /\ reference_data_path = "zero_hall"
    /\ \A i \in 1..Len(current_window) : current_window[i].hallucination_score = 9
    /\ results # <<>>
    /\ ~results[Len(results)]

\* |mean - ref| / ref > 0.2 for the hallucination scores of window w, and
\* (mean - ref) / ref > 0.5 for its response times, with mean = sum / Len(w);
\* neither holds for a reference of 0.
HallucinationTest(w, ref) ==
    LET sum == SumOf(w, "hallucination_score")
        r == RefGet(ref, HallucinationKey) * Len(w)
    IN  r # 0 /\ RatioExceeds(Abs(sum - r), r, 20)

ResponseTimeTest(w, ref) ==
    LET sum == SumOf(w, "response_time_ms")
        r == RefGet(ref, ResponseTimeKey) * Len(w)
    IN  r # 0 /\ RatioExceeds(sum - r, r, 50)

\* detect_drift has returned on a full window, with reference statistics.
ReturnedOnFullWindow ==
    /\ pc[1] = "idle"
    /\ results # <<>>
    /\ Len(current_window) = window_size
    /\ reference_stats # EmptyStats

\* ---- C11 (SpecDrift).  With a full window and non-empty reference
\* statistics, detect_drift returns true exactly when the hallucination mean
\* deviates from its reference by more than 20% in either direction or the
\* response-time mean exceeds its reference by more than 50%.
C11_DriftIsOrOfTwoTests ==
    ReturnedOnFullWindow =>
        results[Len(results)] =
            (\/ HallucinationTest(current_window, reference_stats)
             \/ ResponseTimeTest(current_window, reference_stats))

\* detect_drift has returned true on a window whose hallucination mean is
\* more than 20% below its reference and whose response times do not drift.
C11_Witness ==
    /\ ReturnedOnFullWindow
    /\ results[Len(results)]
    /\ SumOf(current_window, "hallucination_score")
         < RefGet(reference_stats, HallucinationKey) * Len(current_window)
    /\ HallucinationTest(current_window, reference_stats)
    /\ ~ResponseTimeTest(current_window, reference_stats)

\* ---- C12 (SpecDrift).  A speed-up is never flagged: with a full window
\* whose mean response time is at most a positive reference mean and whose
\* hallucination mean is within 20% of its reference, detect_drift returns
\* false.
C12_SpeedUpIsNotDrift ==
    (/\ ReturnedOnFullWindow
     /\ RefGet(reference_stats, ResponseTimeKey) > 0
     /\ SumOf(current_window, "response_time_ms")
          <= RefGet(reference_stats, ResponseTimeKey) * Len(current_window)
     /\ RefGet(reference_stats, HallucinationKey) # 0
     /\ ~HallucinationTest(current_window, reference_stats))
        => ~results[Len(results)]

\* detect_drift has returned false on a window whose mean response time is
\* more than 50% below the reference and whose hallucination mean is the
\* reference.
C12_Witness ==
    /\ ReturnedOnFullWindow
    /\ ~results[Len(results)]
    /\ RefGet(reference_stats, ResponseTimeKey) > 0
    /\ RefGet(reference_stats, HallucinationKey) # 0
    /\ SumOf(current_window, "hallucination_score")
         = RefGet(reference_stats, HallucinationKey) * Len(current_window)
    /\ 2 * SumOf(current_window, "response_time_ms")
         < RefGet(reference_stats, ResponseTimeKey) * Len(current_window)

\* ---- C13 (SpecScenario).  With window size 10, a reference hallucination
\* mean of 0.1 and response times that do not drift, each of ten
\* observations of score 0.1 returns false and an 11th observation, of score
\* 0.9, returns true.
C13_OutlierFlagsEleventhSample ==
    \A i \in 1..Len(results) :
        /\ i <= 10 => ~results[i]
        /\ i = 11 => results[i]

\* The 11th observation has returned, on a window of ten samples that holds
\* the outlier.
C13_Witness ==
    /\ pc[1] = "idle"
    /\ Len(results) = 11
    /\ Len(current_window) = 10
    /\ current_window[10].hallucination_score = 9
    /\ RefGet(reference_stats, HallucinationKey) = 1

\* __init__ has run to its end on object o.
Complete(o) == o.locks >= 1 /\ o.detectors >= 1 /\ o.loads >= 1

\* ---- C14 (SpecSingleton).  Constructions made one after the other create
\* one object; every call returns it; __init__ passes its guard once, and
\* the storage path, the detectors, the lock and the cache are those the
\* first call set, whatever arguments the later calls pass.
C14_OneInstancePerProcess ==
    /\ Len(objects) <= 1
    /\ \A i \in 1..Len(constructed) : constructed[i].self = 1
    /\ constructed # <<>> =>
          /\ objects[1].inits = 1
          /\ objects[1].storage_path = constructed[1].args.storage_path
          /\ objects[1].drift_detector = constructed[1].args.drift_detector
          /\ objects[1].locks = 1
          /\ objects[1].detectors = 1
          /\ objects[1].loads = 1

\* A second construction, with another storage path and another detector,
\* has returned.
C14_Witness ==
    /\ Len(constructed) >= 2
    /\ constructed[2].args.storage_path # constructed[1].args.storage_path
    /\ constructed[2].args.drift_detector # constructed[1].args.drift_detector
    /\ pc[1] = "sn_returned"

\* ---- C15 (SpecSingletonConc).  When several threads construct the store
\* for the first time, __init__ runs at most once, every thread obtains the
\* same instance, and no thread holds the instance before its
\* initialization has completed.
C15_InitOnceUnderConcurrency ==
    /\ Len(objects) <= 1
    /\ \A i \in 1..Len(objects) : objects[i].inits <= 1
    /\ \A i, j \in 1..Len(constructed) : constructed[i].self = constructed[j].self
    /\ \A t \in Threads :
          pc[t] = "sn_returned" => Complete(objects[loc[t].self])

\* The concatenation of the chunks of a body stream.
RECURSIVE Concat(_)
Concat(chunks) ==
    IF chunks = <<>> THEN <<>> ELSE Head(chunks) \o Concat(Tail(chunks))

\* dispatch was called on a path that contains the filter, or with no filter.
OnAuditedPath(t) ==
    audit_path_filter = NoFilter
        \/ IsSubstring(audit_path_filter, loc[t].request.path)

\* dispatch has returned the response of an audited call that the handler
\* answered with a 2xx status and a body that is not empty.
ReturnedAuditedSuccess(t) ==
    /\ pc[t] = "dp_returned"
    /\ OnAuditedPath(t)
    /\ loc[t].response # NoResponse
    /\ IsSuccess(loc[t].downstream.status)
    /\ Concat(loc[t].downstream.body_iterator) # <<>>

\* ---- C16 (SpecDispatch).  The metrics step is background work: when
\* dispatch returns the response of an audited 2xx call, it has not waited
\* for log_inference, and the call's record has not been appended to the
\* log yet.
C16_ResponseDoesNotWaitForAppend ==
    ReturnedAuditedSuccess(1) => log_file = loc[1].log_at_call

\* What the code does instead: every step that changes the log is taken
\* before the response of the call is returned.
AuditPrecedesReturn ==
    [][log_file' # log_file =>
          /\ op[1] = "dispatch"
          /\ pc[1] \notin {"dp_returned", "dp_raised", "idle"}
          /\ loc[1].returned = NoResponse]_vars

\* The response dispatch returned is the one the handler gave: that
\* response, its reconstruction with the drained body, or, when the body
\* stream raised, that response with the chunks read so far gone from its
\* stream.
ReturnedIsDownstream(t) ==
    LET d == loc[t].downstream
        r == loc[t].returned
    IN  /\ d # NoResponse
        /\ r.status = d.status
        /\ r.headers = d.headers
        /\ \/ r = d
           \/ r.body_iterator = <<Concat(d.body_iterator)>>
           \/ \E k \in 1..Len(d.body_iterator) :
                 r.body_iterator =
                     SubSeq(d.body_iterator, k + 1, Len(d.body_iterator))

C18_AuditFailureDoesNotPropagate ==
    (op[1] = "dispatch" /\ pc[1] # "idle" /\ loc[1].audit_raised) =>
        /\ pc[1] \in {"dp_return", "dp_returned"}
        /\ pc[1] = "dp_returned" =>
              loc[1].returned =
                  [status |-> loc[1].downstream.status,
                   headers |-> loc[1].downstream.headers,
                   body_iterator |->
                       <<Concat(loc[1].downstream.body_iterator)>>]

\* dispatch has returned the response of a call whose log_inference raised
\* after detect_drift had taken the sample.
C18_Witness ==
    /\ pc[1] = "dp_returned"
    /\ loc[1].audit_raised
    /\ loc[1].rid # 0
    /\ loc[1].returned.status = 200
    /\ Len(loc[1].downstream.body_iterator) = 2

C20_FilteredOutIsPassedThrough ==
    /\ (op[1] = "dispatch" /\ pc[1] # "idle" /\ ~OnAuditedPath(1)) =>
          /\ pc[1] \in {"dp_pass", "dp_returned", "dp_raised"}
          /\ ~loc[1].request_read
          /\ loc[1].response_body = <<>>
          /\ log_file = loc[1].log_at_call
          /\ pc[1] # "dp_pass" => loc[1].calls = 1
          /\ pc[1] = "dp_returned" =>
                /\ loc[1].returned = loc[1].downstream
                /\ loc[1].returned \in Responses
    /\ audit_path_filter = NoFilter => pc[1] # "dp_pass"

\* With the filter "/v1/infer", a POST to /health with a body that is not
\* JSON has been answered 200 with two chunks, after an earlier call was
\* recorded.
C20_Witness ==
    /\ pc[1] = "dp_returned"
    /\ audit_path_filter # NoFilter
    /\ loc[1].request = [path |-> <<"/health">>, method |-> "POST",
                         json_ok |-> FALSE]
    /\ loc[1].returned.status = 200
    /\ Len(loc[1].returned.body_iterator) = 2
    /\ loc[1].log_at_call.data # <<>>

\* dispatch has returned from an audited call that was not a GET, whose body
\* request.json() could not parse, and that the handler answered with a 2xx
\* status and a body that is not empty.
ReturnedMalformedSuccess(t) ==
    /\ pc[t] = "dp_returned"
    /\ OnAuditedPath(t)
    /\ loc[t].request.method # "GET"
    /\ ~loc[t].request.json_ok
    /\ IsSuccess(loc[t].downstream.status)
    /\ Concat(loc[t].downstream.body_iterator) # <<>>

\* ---- C21 (SpecDispatch).  An extraction failure falls back to defaults:
\* an audited non-GET call with a malformed or missing request body that is
\* answered 2xx with a non-empty body is audited, log_inference being called
\* with the empty prompt and the generic model name; and a response body
\* that is not JSON is audited with the body's text as the completion.
C21_ExtractionFailureFallsBack ==
    /\ ReturnedMalformedSuccess(1) =>
          /\ loc[1].rid # 0
          /\ loc[1].model = DefaultModel
          /\ loc[1].prompt = <<>>
    /\ (pc[1] = "dp_log" /\ loc[1].response_body \notin DOMAIN JsonTexts) =>
          loc[1].completion = loc[1].response_body

\* What the code does instead: on a request body that json() cannot parse,
\* dispatch calls the handler in its except clause and returns the answer
\* unread; log_inference is not called and the log is unchanged.  The
\* defaults are used when the body is an object without the members, and
\* the text of a body that is not JSON is the completion.
MalformedRequestIsNotAudited ==
    /\ (op[1] = "dispatch" /\ pc[1] # "idle"
            /\ OnAuditedPath(1)
            /\ loc[1].request.method # "GET"
            /\ ~loc[1].request.json_ok) =>
          /\ loc[1].rid = 0
          /\ log_file = loc[1].log_at_call
          /\ loc[1].response = NoResponse
          /\ pc[1] = "dp_returned" => loc[1].returned = loc[1].downstream
    /\ (pc[1] = "dp_log" /\ loc[1].request_body = JsonObject(EmptyDict)) =>
          /\ loc[1].model = DefaultModel
          /\ loc[1].prompt = <<>>
    /\ (pc[1] = "dp_log" /\ loc[1].response_body \notin DOMAIN JsonTexts) =>
          loc[1].completion = loc[1].response_body

\* The serial numbers of the calls whose events of that kind are in the
\* history, in the order of the events.
RECURSIVE RidsOfKind(_, _)
RidsOfKind(events, kind) ==
    IF events = <<>> THEN <<>>
    ELSE (IF events[1].kind = kind THEN <<events[1].rid>> ELSE <<>>)
             \o RidsOfKind(Tail(events), kind)

\* The serial numbers of the records of the log, in the order of its lines.
LogRids == [i \in 1..Len(_load_metrics(log_file)) |->
               _load_metrics(log_file)[i].rid]

\* Element x occurs in sequence q before element y does.
Before(q, x, y) ==
    \E i, j \in 1..Len(q) : i < j /\ q[i] = x /\ q[j] = y

InSeq(q, x) == \E i \in 1..Len(q) : q[i] = x

\* ---- C22 (SpecAppend), as stated.  Of two log_inference calls whose
\* records are in the log, the one that returned first has its record
\* earlier in the log.
C22_LogOrderIsReturnOrder ==
    \A x, y \in 1..MaxObs :
        (/\ Before(RidsOfKind(log_events, "returned"), x, y)
         /\ InSeq(LogRids, x)
         /\ InSeq(LogRids, y)) => Before(LogRids, x, y)

\* ---- C22 (SpecAppend), amended.  The records are in the log in the order
\* in which the appends were completed under the lock, one line for each
\* completed append; and a call returns only after its own append.
C22_LogOrderIsAppendOrder ==
    /\ LogRids = RidsOfKind(log_events, "appended")
    /\ \A x \in 1..MaxObs :
          (InSeq(RidsOfKind(log_events, "appended"), x)
               /\ InSeq(RidsOfKind(log_events, "returned"), x))
              => \E i, j \in 1..Len(log_events) :
                    /\ i < j
                    /\ log_events[i].rid = x
                    /\ log_events[i].kind = "appended"
                    /\ log_events[j].rid = x
                    /\ log_events[j].kind = "returned"

\* Two calls have returned, and the one that returned second has its record
\* on the first line of the log: it completed its append first.
C22_Witness ==
    /\ AllIdle
    /\ Len(LogRids) >= 2
    /\ Before(RidsOfKind(log_events, "returned"), LogRids[2], LogRids[1])

\* The records of the events of that kind, in the order of the events.
RECURSIVE RecordsOfKind(_, _)
RecordsOfKind(events, kind) ==
    IF events = <<>> THEN <<>>
    ELSE (IF events[1].kind = kind THEN <<events[1].record>> ELSE <<>>)
             \o RecordsOfKind(Tail(events), kind)

\* Records a and b have the same keys and, key for key, equal values; a
\* NumPy scalar equals the Python value it converts to.
SameValues(a, b) ==
    /\ DOMAIN a = DOMAIN b
    /\ \A k \in DOMAIN a \ {"numpy"} : a[k] = b[k]

RECURSIVE CountRid(_, _)
CountRid(q, rid) ==
    IF q = <<>> THEN 0
    ELSE (IF q[1].rid = rid THEN 1 ELSE 0) + CountRid(Tail(q), rid)

\* ---- C24 (SpecReload).  When get_metrics_dataframe returns, having opened
\* the log, its table holds every record that was in the log when it was
\* called exactly once and no record twice, also when another thread reads
\* or appends at the same time.
C24_ReloadHoldsEachRecordOnce ==
    \A t \in Threads :
        (pc[t] = "gm_returned" /\ ~loc[t].io_failed) =>
            /\ \A i \in 1..Len(_load_metrics(loc[t].at_call)) :
                  CountRid(loc[t].dataframe,
                           _load_metrics(loc[t].at_call)[i].rid) = 1
            /\ \A i \in 1..Len(loc[t].dataframe) :
                  CountRid(loc[t].dataframe, loc[t].dataframe[i].rid) = 1

\* What holds with one reader and no reset: the table is the log.
ReloadIsExactWhenAlone ==
    (pc[1] = "gm_returned" /\ ~loc[1].io_failed) =>
        loc[1].dataframe = _load_metrics(log_file)

\* reset_metrics has returned from a call made on a log that did not exist
\* or was empty.
ResetOfEmptyLogReturned(t) ==
    /\ pc[t] = "rm_returned"
    /\ loc[t].at_call.data = <<>>

\* ---- C25 (SpecStoreSeq), as stated.  reset_metrics on an empty or
\* non-existent log returns true and leaves an empty log.
C25_ResetOfEmptyLogReturnsTrue ==
    ResetOfEmptyLogReturned(1) =>
        /\ loc[1].ret
        /\ log_file.exists
        /\ log_file.data = <<>>

\* ---- C25 (SpecStoreSeq), amended.  reset_metrics on an empty or
\* non-existent log returns (it does not raise); when neither the backup
\* copy nor the truncating open fails it returns true and leaves an existing
\* empty log and an empty cache, and otherwise it returns false and leaves
\* the log as it was; in both cases the log holds no record, and a
\* get_metrics_dataframe called on such a log returns an empty table.  This
\* holds for every such call, a repeated one included.
C25_ResetOfEmptyLogIsIdempotent ==
    /\ ResetOfEmptyLogReturned(1) =>
          /\ ~loc[1].io_failed =>
                /\ loc[1].ret
                /\ log_file.exists
                /\ log_file.data = <<>>
                /\ metrics = <<>>
          /\ loc[1].io_failed =>
                /\ ~loc[1].ret
                /\ log_file = loc[1].at_call
          /\ _load_metrics(log_file) = <<>>
    /\ (pc[1] = "gm_returned" /\ loc[1].at_call.data = <<>>) =>
          loc[1].dataframe = <<>>
    /\ (op[1] \in {"reset_metrics", "reset_metrics_data"}
            /\ pc[1] \in {"rm_exists", "rm_copy", "rm_truncate", "rm_clear",
                           "rm_failed"}
            /\ loc[1].at_call.data = <<>>) => log_file.data = <<>>

\* A second reset in a row has returned true on the empty log the first
\* one created.
C25_Witness ==
    /\ ResetOfEmptyLogReturned(1)
    /\ loc[1].ret
    /\ reset_calls = 2
    /\ loc[1].at_call.exists
    /\ committed = {}
    /\ op[1] = "reset_metrics"

\* Thread t is inside reset_metrics.
InReset(t) ==
    /\ op[t] \in {"reset_metrics", "reset_metrics_data"}
    /\ pc[t] \in {"rm_exists", "rm_copy", "rm_truncate", "rm_clear",
                   "rm_failed", "rm_returned", "rm_raised"}

\* ---- C26 (SpecStoreSeqLive).  reset_metrics never raises: every call
\* returns; a call whose backup copy or truncating open failed goes through
\* the except clause and returns false, and a call returns false only then.
C26_ResetNeverRaises ==
    /\ [](\A t \in Threads : pc[t] # "rm_raised")
    /\ []((InReset(1) /\ loc[1].io_failed) =>
              pc[1] \in {"rm_failed", "rm_returned"})
    /\ [](pc[1] = "rm_returned" => (loc[1].ret = ~loc[1].io_failed))
    /\ (InReset(1) /\ pc[1] # "rm_returned") ~> (pc[1] = "rm_returned")

\* reset_metrics has returned false after the truncating open failed, the
\* backup having been written.
C26_Witness ==
    /\ pc[1] = "rm_returned"
    /\ ~loc[1].ret
    /\ loc[1].io_failed
    /\ HasBackup(loc[1].backup_ts, loc[1].at_call.data)
    /\ loc[1].at_call.data # <<>>
    /\ log_file = loc[1].at_call

\* log_inference is about to return after its append failed on an I/O
\* error.
AppendFailed(t) == pc[t] = "li_return" /\ loc[t].io_failed

ScoresInRange(scores) ==
    \A k \in DOMAIN scores : scores[k] >= 0 /\ scores[k] <= Unit

\* C28: whatever the prompt and the completion are, and whether or not the
\* embedder raises, score_hallucination returns a value in [0, 1], and the
\* record log_inference assembles for the log has hallucination_score in
\* [0, 1] and, when it has the key, fact_consistency in [0, 1].
C28_ScoresAreProbabilities ==
    \A t \in Threads :
        /\ pc[t] = "sh_returned" =>
               loc[t].score >= 0 /\ loc[t].score <= Unit
        /\ pc[t] \in {"ls_fact", "ls_returned"} =>
               /\ "hallucination_score" \in DOMAIN loc[t].scores
               /\ ScoresInRange(loc[t].scores)

\* C28's case: log_inference has assembled a record with both scores, and
\* the embedder raised in the first scoring and in the second.
C28_Witness ==
    \E t \in Threads :
        /\ pc[t] = "ls_returned"
        /\ loc[t].embed_raised
        /\ loc[t].rescore_raised
        /\ "fact_consistency" \in DOMAIN loc[t].scores

\* C29: a record that log_inference has assembled has the key
\* fact_consistency exactly when its hallucination_score is below 0.8, and
\* the value is then 1 - hallucination_score.
C29_FactConsistencyIsComplement ==
    \A t \in Threads :
        pc[t] = "ls_returned" =>
            /\ "fact_consistency" \in DOMAIN loc[t].scores
                   <=> loc[t].scores["hallucination_score"]
                           < FactConsistencyLimit
            /\ "fact_consistency" \in DOMAIN loc[t].scores =>
                   loc[t].scores["fact_consistency"]
                       = Unit - loc[t].scores["hallucination_score"]

\* What the code keeps of it: the key is there exactly below 0.8, and the
\* value is the complement when the embedder did the same in both scorings.
FactConsistencyIsComplementOfRescore ==
    \A t \in Threads :
        pc[t] = "ls_returned" =>
            /\ "fact_consistency" \in DOMAIN loc[t].scores
                   <=> loc[t].scores["hallucination_score"]
                           < FactConsistencyLimit
            /\ /\ "fact_consistency" \in DOMAIN loc[t].scores
               /\ loc[t].embed_raised = loc[t].rescore_raised
               => loc[t].scores["fact_consistency"]
                      = Unit - loc[t].scores["hallucination_score"]

\* The hesitation score that takes one step for every place where a phrase
\* of the lexicon stands in the completion.
hesitation_score_per_place(completion_lower) ==
    LET places ==
            {ip \in (1..Len(hallucination_indicators))
                        \X (0..Len(completion_lower)) :
                LET ind == hallucination_indicators[ip[1]] IN
                    /\ ip[2] + Len(ind) <= Len(completion_lower)
                    /\ SubSeq(completion_lower, ip[2] + 1, ip[2] + Len(ind))
                           = ind}
    IN  Min(HesitationStep * Cardinality(places), HesitationCap)

\* C30: the hesitation score is 0.1 for every occurrence of a hedging
\* phrase in the completion, capped at 0.5; the same phrase k times gives
\* min(0.1 * k, 0.5).
C30_HesitationCountsOccurrences ==
    \A t \in Threads :
        pc[t] = "sh_returned" /\ loc[t].input.is_str =>
            loc[t].hesitation
                = hesitation_score_per_place(lower(loc[t].input.completion))

\* What the code computes: 0.1 for every phrase of the lexicon that the
\* completion contains, however often, capped at 0.5.
HesitationCountsPhrases ==
    \A t \in Threads :
        pc[t] = "sh_returned" /\ loc[t].input.is_str =>
            LET found == {i \in 1..Len(hallucination_indicators) :
                             IsSubstring(hallucination_indicators[i],
                                         lower(loc[t].input.completion))}
            IN  /\ loc[t].hesitation <= HesitationCap
                /\ Cardinality(found) <= 5 =>
                       loc[t].hesitation = HesitationStep * Cardinality(found)
                /\ Cardinality(found) >= 5 =>
                       loc[t].hesitation = HesitationCap

\* The score of a pair of strings whose embedding failed: the divergence
\* term is the default, the two other terms are computed from the texts.
ScoreWithDefaultDivergence(in) ==
    np_clip(weighted_sum(DivergenceDefault,
                         hesitation_score(lower(in.completion)),
                         overlap_score(lower(in.prompt),
                                       lower(in.completion))),
            0, Unit)

\* C31: score_hallucination returns for every call, directly or from
\* log_inference: the default 0.5 when the heuristic raises, and, when only
\* the embedding call fails, the weighted score with the divergence term
\* replaced by 0.5 and the other terms kept.
C31_ScoringFailureGivesDefault ==
    \A t \in Threads :
        pc[t] \in {"sh_returned", "ls_fact"} =>
            /\ loc[t].score >= 0
            /\ ~loc[t].input.is_str => loc[t].score = ScoreDefault
            /\ loc[t].embed_raised =>
                   loc[t].score = ScoreWithDefaultDivergence(loc[t].input)

\* C31's case: the embedder raised for a pair of strings and the score
\* returned is not the default.
C31_Witness ==
    \E t \in Threads :
        /\ pc[t] = "sh_returned"
        /\ loc[t].embed_raised
        /\ loc[t].score # ScoreDefault

\* The log had no record when the operation was called: no file, or a file
\* without content.
EmptyLog(f) == ~f.exists \/ f.data = <<>>

\* C32: get_resource_usage_stats on an empty log returns the zero-valued
\* structure (count 0, the averages 0, no model in the breakdown), whatever
\* the model filter is.
C32_EmptyLogGivesZeroStats ==
    \A t \in Threads :
        pc[t] = "ru_returned" /\ EmptyLog(loc[t].at_call) =>
            loc[t].stats = ZeroStats

\* C32's case: the statistics of a log that a reset has emptied were asked
\* for with a model filter, and returned.
C32_Witness ==
    \E t \in Threads :
        /\ pc[t] = "ru_returned"
        /\ loc[t].at_call.exists
        /\ loc[t].at_call.data = <<>>
        /\ loc[t].model # NoModel
        /\ loc[t].stats = ZeroStats

\* The records of the log when the operation was called.
RecordsAtCall(t) == _load_metrics(loc[t].at_call)

RECURSIVE SumCounts(_, _)
SumCounts(breakdown, names) ==
    IF names = {} THEN 0
    ELSE LET m == CHOOSE x \in names : TRUE IN
             breakdown[m].count + SumCounts(breakdown, names \ {m})

\* The top-level count is the number of records of the filter's model (of
\* all records without a filter), and the breakdown covers the models of the
\* log with counts that sum to the number of records.
StatsCountsAreRight(t) ==
    LET df == RecordsAtCall(t)
        stats == loc[t].stats
    IN  /\ stats.count =
               Cardinality({i \in 1..Len(df) :
                               loc[t].model = NoModel
                                   \/ df[i].model = loc[t].model})
        /\ DOMAIN stats.models = {df[i].model : i \in 1..Len(df)}
        /\ SumCounts(stats.models, DOMAIN stats.models) = Len(df)

\* C33: for a log with records, get_resource_usage_stats(model) counts the
\* records of the filter's model (all records without a filter), its
\* averages are numbers also when no record matches the filter, and its
\* breakdown covers all models of the log with counts summing to the number
\* of records.
C33_StatsOfNonEmptyLog ==
    \A t \in Threads :
        /\ pc[t] = "ru_returned"
        /\ ~EmptyLog(loc[t].at_call)
        /\ ~loc[t].io_failed
        => /\ StatsCountsAreRight(t)
           /\ loc[t].stats.avg_cpu_time_sec # NaN
           /\ loc[t].stats.avg_memory_delta_mb # NaN
           /\ loc[t].stats.avg_response_time_ms # NaN

\* What the code keeps of it: the counts, and averages that are numbers
\* exactly when a record matches the filter.
StatsAveragesNeedAMatch ==
    \A t \in Threads :
        /\ pc[t] = "ru_returned"
        /\ ~EmptyLog(loc[t].at_call)
        /\ ~loc[t].io_failed
        => /\ StatsCountsAreRight(t)
           /\ loc[t].stats.avg_response_time_ms # NaN
                  <=> loc[t].stats.count > 0
           /\ \A m \in DOMAIN loc[t].stats.models :
                  /\ loc[t].stats.models[m].count > 0
                  /\ loc[t].stats.models[m].avg_hallucination_score # NaN

\* C34: dispatch invokes the downstream handler exactly once per call, on
\* every path: the path is filtered out, the request body cannot be parsed,
\* the handler answers, the handler raises.
C34_CallNextExactlyOnce ==
    \A t \in Threads :
        pc[t] \in {"dp_returned", "dp_raised"} => loc[t].calls = 1

\* What the code keeps of it: the handler is invoked once, but for the call
\* whose first invocation raised inside the try, which invokes it a second
\* time from the except clause.
CallNextTwiceOnlyAfterRaise ==
    \A t \in Threads :
        pc[t] \in {"dp_returned", "dp_raised"} =>
            /\ loc[t].calls \in {1, 2}
            /\ loc[t].calls = 2 =>
                   /\ _should_audit_path(audit_path_filter,
                                         loc[t].request.path)
                   /\ loc[t].response = NoResponse
                   /\ loc[t].request.method = "GET" \/ loc[t].request.json_ok

\* The records the log holds.
LogLength(f) == IF f.exists THEN Len(TextLines(f.data)) ELSE 0

\* dispatch drained a 2xx response of an audited call to a body that is not
\* empty.
Auditable(t) ==
    /\ OnAuditedPath(t)
    /\ loc[t].downstream # NoResponse
    /\ IsSuccess(loc[t].downstream.status)
    /\ loc[t].response_body # <<>>
    /\ loc[t].response_body = Concat(loc[t].downstream.body_iterator)

C36_BackupsAreNeverOverwritten ==
    [][\A ts \in DOMAIN backups :
          backups[ts] # <<>> =>
              /\ ts \in DOMAIN backups'
              /\ backups'[ts] = backups[ts]]_vars

\* What the code keeps of it: no backup file is ever removed, and a backup
\* is overwritten only by the copy of a reset whose timestamp is the same
\* second.
BackupsOverwrittenBySameSecondOnly ==
    [][\A ts \in DOMAIN backups :
          /\ ts \in DOMAIN backups'
          /\ backups'[ts] # backups[ts] =>
                 /\ pc[1] = "rm_copy"
                 /\ loc[1].backup_ts = ts
                 /\ backups'[ts] = log_file.data]_vars

\* C37: when reset_metrics returns false, the log file and the in-memory
\* metrics cache are what they were when it was called.
C37_FailedResetChangesNothing ==
    \A t \in Threads :
        (InReset(t) /\ pc[t] = "rm_returned" /\ ~loc[t].ret) =>
            /\ log_file = loc[t].at_call
            /\ metrics = loc[t].cache_at_call

\* C37's case: a reset of a log with records, whose records are loaded in
\* the cache, has returned false after its backup was written.
C37_Witness ==
    \E t \in Threads :
        /\ pc[t] = "rm_returned"
        /\ ~loc[t].ret
        /\ loc[t].at_call.data # <<>>
        /\ loc[t].cache_at_call # <<>>
        /\ loc[t].backup_ts \in DOMAIN backups
        /\ op[t] = "reset_metrics"

\* C38: a step of reset_metrics, its call and its return included, changes
\* nothing but the log file, the backup files and the metrics cache: the
\* drift window, the reference statistics, the window size and the lock are
\* left alone.  The window therefore stays the last observations made,
\* before a reset or after it, and the flags are computed from them.
C38_ResetLeavesDriftState ==
    /\ [][(InReset(1) \/ InReset(1)') =>
             /\ current_window' = current_window
             /\ reference_stats' = reference_stats
             /\ window_size' = window_size
             /\ lock' = lock
             /\ observed' = observed]_vars
    /\ [](pc[1] \in {"idle", "li_record"} =>
             current_window = LastN(observed, Min(Len(observed), WindowSize)))
    /\ [](pc[1] = "li_record" /\ Len(observed) >= WindowSize =>
             loc[1].result = DriftOf(LastN(observed, WindowSize),
                                     reference_stats))

\* C38's case: the second observation, made after a reset that truncated
\* the log of the first, is flagged as drift on a window that holds both.
C38_Witness ==
    /\ pc[1] = "li_record"
    /\ loc[1].result
    /\ Len(observed) = WindowSize
    /\ log_file.exists
    /\ log_file.data = <<>>
    /\ \E ts \in DOMAIN backups : backups[ts] # <<>>
    /\ Len(current_window) = WindowSize

\* A sample without its token count.
WithoutTokens(s) == Sample(s.hallucination_score, s.response_time_ms)

\* The flag of the i-th observation as the scores and response times of the
\* observations alone determine it.
FlagWithoutTokens(i) ==
    IF i < WindowSize \/ NoReference(reference_stats)
    THEN FALSE
    ELSE DriftOf([j \in 1..WindowSize |->
                     WithoutTokens(observed[i - WindowSize + j])],
                 reference_stats)

\* C39: the token counts of the observations do not influence the flags:
\* every flag detect_drift returned is the one computed from the
\* hallucination scores and the response times of the observations, so two
\* sequences that differ in token counts only (given, other, absent) get the
\* same flags at every step.
C39_TokenCountDoesNotInfluenceDrift ==
    \A i \in 1..Len(results) : results[i] = FlagWithoutTokens(i)

\* C39's case: with a reference that has a token-count mean, a window that
\* holds a sample with a token count and one without has been tested.
C39_Witness ==
    /\ pc[1] = "idle"
    /\ TokenCountKey \in DOMAIN reference_stats
    /\ Len(current_window) = WindowSize
    /\ Len(results) = WindowSize
    /\ "token_count" \in DOMAIN current_window[1]
    /\ "token_count" \notin DOMAIN current_window[2]

\* A second case of it: of two windows with the same scores and times, the
\* one with token counts is flagged as the one without.
TokensGivenAndFlagged ==
    /\ pc[1] = "idle"
    /\ Len(results) = WindowSize
    /\ results[WindowSize]
    /\ \A i \in 1..WindowSize : "token_count" \in DOMAIN current_window[i]

\* The request_id members of the complete lines of a content, in order.
RequestIdsOf(d) ==
    LET lines == TextLines(d)
        whole == {i \in 1..Len(lines) : Parseable(lines[i])}
    IN  [i \in whole |-> lines[i][1].rec["request_id"]]

\* C40: no two records of the log carry the same request_id, also when they
\* were logged within the same millisecond or by concurrent calls.
C40_RequestIdsAreUnique ==
    LET ids == RequestIdsOf(log_file.data) IN
        \A i, j \in DOMAIN ids : i # j => ids[i] # ids[j]

\* What the code keeps of it: records whose request_id was made in
\* different milliseconds differ in it, and every record of the log has one.
RequestIdIsTheMillisecond ==
    LET ids == RequestIdsOf(log_file.data) IN
        \A i \in DOMAIN ids :
            \E s \in 0..MaxClock :
                \E ms \in MsOfSecond(s) :
                    ids[i] = <<"string", RequestId(ms)>>

====
